---- MODULE Spec2Model ----
(***************************************************************************)
(* THE SPIRE: the turn engine of src/main.py (GameState, Simulation) as a  *)
(* state machine.  One action per operation a driver performs on the world *)
(* state: advance_turn(action), the two dilemma choices followed by their  *)
(* wait turn, and a write of the cursor.                                   *)
(*                                                                         *)
(* Reals.  The float fields (food, power, materials, morale, tension and a *)
(* sector's health) are fixed-point numbers with denominator Scale: the    *)
(* value x is held as x * Scale.  Every constant of the engine (1.5, 2.5,  *)
(* 0.6, workers * 2.5 * health / 100, ...) is a whole number of 1/Scale    *)
(* units, so the arithmetic below is exact rational arithmetic.            *)
(*                                                                         *)
(* Randomness.  Every random.random / randint / choice / sample of the     *)
(* code is a choice (\E) in the action.  An integer range is explored at   *)
(* its two ends, a choice among sectors at the lowest and the highest      *)
(* candidate, and a run spends at most MaxChoices on inputs other than the *)
(* plain wait turn (a non-wait action, a cursor write, a probability roll  *)
(* that succeeds).                                                         *)
(***************************************************************************)
EXTENDS Integers, Sequences, FiniteSets, TLC

\* ------------------------------------------------------------------ bounds
\* advance_turn calls explored in one run
MaxTurns == 3
\* non-default inputs (non-wait actions, cursor writes, successful rolls) in one run
MaxChoices == 1

\* ------------------------------------------------------------ fixed point
Scale == 400
R(x) == x * Scale
Half == Scale \div 2

Min(S) == CHOOSE x \in S : \A y \in S : x <= y
Max(S) == CHOOSE x \in S : \A y \in S : x >= y
MinOf(a, b) == IF a <= b THEN a ELSE b

\* Python's int(n * num / den): truncation toward zero
TruncMul(n, num, den) ==
  IF n >= 0 THEN (n * num) \div den ELSE -(((-n) * num) \div den)

\* ---------------------------------------------------------- action strings
\* An action tag is a Python str: a sequence of characters.
wait == <<"w","a","i","t">>
repair == <<"r","e","p","a","i","r">>
extinguish == <<"e","x","t","i","n","g","u","i","s","h">>
build == <<"b","u","i","l","d">>
build_farm == build \o <<"_","f","a","r","m">>
build_power == build \o <<"_","p","o","w","e","r">>
build_industry == build \o <<"_","i","n","d","u","s","t","r","y">>
build_housing == build \o <<"_","h","o","u","s","i","n","g">>
boost_morale == <<"b","o","o","s","t","_","m","o","r","a","l","e">>
emergency_rations ==
  <<"e","m","e","r","g","e","n","c","y","_","r","a","t","i","o","n","s">>

\* the tags of spec section 4.1
KnownActions ==
  { wait, repair, extinguish, build_farm, build_power, build_industry,
    build_housing, boost_morale, emergency_rations }

\* tags outside the set: the one demo.py submits, a build_ tag with an unknown
\* suffix, one that holds "build" but does not start with it, and a plain one
build_xyz == build \o <<"_","x","y","z">>
rebuild == <<"r","e">> \o build
dance == <<"d","a","n","c","e">>
UnknownActions == { build, build_xyz, rebuild, dance }

Actions == KnownActions \cup UnknownActions

\* a variant of startswith: p anywhere in a (Python's `p in a`)
Contains(a, p) ==
  \E k \in 0..(Len(a) - Len(p)) : SubSeq(a, k + 1, k + Len(p)) = p

\* str.startswith
StartsWith(a, p) == Len(a) >= Len(p) /\ SubSeq(a, 1, Len(p)) = p

\* ------------------------------------------------------------ world state
VARIABLES
  state,   \* Simulation.state: the GameState record
  turns,   \* advance_turn calls made so far (the drivers' turn counters)
  used,    \* non-default inputs spent so far
  last     \* the latest advance_turn call: its action and the state after each
           \* phase; first is the world the run began with, only_wait whether
           \* all the driver has done to the world so far is advance_turn("wait")

vars == <<state, turns, used, last>>

SectorTypes == { "RESIDENTIAL", "FARMS", "POWER", "INDUSTRIAL" }

\* @dataclass Sector
Sector(level, sector_type, workers) ==
  [ level |-> level, sector_type |-> sector_type, health |-> R(100),
    workers |-> workers, on_fire |-> FALSE, fire_turns |-> 0 ]

\* Sector.is_functional
is_functional(sec) == sec.health > R(20) /\ ~sec.on_fire

\* current_dilemma is None
None == [ target |-> 0 ]

\* victory_message == ""
NoMessage == [ kind |-> "", year |-> 0, population |-> 0 ]

\* the starting tower with the types of levels 1 and 2 exchanged
_initialize_tower_Swapped(w) ==
  << Sector(1, "INDUSTRIAL", w[1]), Sector(2, "POWER", w[2]),
     Sector(3, "RESIDENTIAL", w[3]), Sector(4, "FARMS", w[4]),
     Sector(5, "RESIDENTIAL", w[5]), Sector(6, "FARMS", w[6]),
     Sector(7, "POWER", w[7]), Sector(8, "RESIDENTIAL", w[8]) >>

\* GameState._initialize_tower: the eight starting sectors, each with
\* random.randint(8, 15) workers (w[i] for the i-th)
_initialize_tower(w) ==
  << Sector(1, "POWER", w[1]), Sector(2, "INDUSTRIAL", w[2]),
     Sector(3, "RESIDENTIAL", w[3]), Sector(4, "FARMS", w[4]),
     Sector(5, "RESIDENTIAL", w[5]), Sector(6, "FARMS", w[6]),
     Sector(7, "POWER", w[7]), Sector(8, "RESIDENTIAL", w[8]) >>

\* GameState(): the dataclass defaults
GameState(w) ==
  [ year |-> 1, month |-> 1,
    food |-> R(150), power |-> R(100), materials |-> R(80),
    population |-> 85, morale |-> R(65),
    sectors |-> _initialize_tower(w), max_height |-> 12,
    events |-> << >>, current_dilemma |-> None,
    tension |-> 0, turns_since_crisis |-> 0,
    alive |-> TRUE, victory_message |-> NoMessage,
    cursor |-> 5, building_mode |-> FALSE ]

\* GameState.get_sector: the index in sectors of the first sector at the
\* level, 0 for None
get_sector(s, level) ==
  LET idx == { i \in DOMAIN s.sectors : s.sectors[i].level = level }
  IN IF idx = {} THEN 0 ELSE Min(idx)

\* the bound of the event log
MaxLog == 50

\* the log that evicts with pop() instead of pop(0): the newest entry goes
_add_event_PopNewest(s, message, a, b, color) ==
  LET e == [ year |-> s.year, month |-> s.month, message |-> message,
             a |-> a, b |-> b, color |-> color ]
      ev == Append(s.events, e)
  IN [ s EXCEPT !.events = IF Len(ev) > MaxLog THEN SubSeq(ev, 1, Len(ev) - 1) ELSE ev ]

\* Simulation._add_event: the entry carries the clock at the time of the
\* append; message is the text of the f-string, a and b the numbers in it
_add_event(s, message, a, b, color) ==
  LET e == [ year |-> s.year, month |-> s.month, message |-> message,
             a |-> a, b |-> b, color |-> color ]
      ev == Append(s.events, e)
  IN [ s EXCEPT !.events = IF Len(ev) > MaxLog THEN Tail(ev) ELSE ev ]

\* Simulation.__init__: create_world
Simulation(w) ==
  _add_event(
    _add_event(GameState(w), "The Spire awakens", 0, 0, "cyan"),
    "The Tower is unstable", 0, 0, "yellow")

\* the clock that does not count the turn towards the next crisis
ClockAdvance_NoCount(s) ==
  LET m == s.month + 1
  IN [ s EXCEPT !.month = IF m > 12 THEN 1 ELSE m,
                !.year = IF m > 12 THEN s.year + 1 ELSE s.year ]

\* a variant of the clock advance: the wrap leaves out year += 1
ClockAdvance_SameYear(s) ==
  LET m == s.month + 1
  IN [ s EXCEPT !.month = IF m > 12 THEN 1 ELSE m,
                !.turns_since_crisis = @ + 1 ]

\* --------------------------------------------------------- phase 1: clock
ClockAdvance(s) ==
  LET m == s.month + 1
  IN [ s EXCEPT !.month = IF m > 12 THEN 1 ELSE m,
                !.year = IF m > 12 THEN s.year + 1 ELSE s.year,
                !.turns_since_crisis = @ + 1 ]

\* the repair that brings a crew of 5 back into the sector
ActionRepair_Restaffs(s) ==
  LET i == get_sector(s, s.cursor)
  IN IF i # 0 /\ s.materials >= R(40)
     THEN _add_event(
            [ s EXCEPT !.materials = @ - R(40),
                       !.sectors[i].health = MinOf(R(100), @ + R(50)),
                       !.sectors[i].workers = @ + 5 ],
            "repaired", s.cursor, 0, "green")
     ELSE _add_event(s, "Need 40 materials", 0, 0, "red")

\* the repair without the cap of 100 on health
ActionRepair_NoCap(s) ==
  LET i == get_sector(s, s.cursor)
  IN IF i # 0 /\ s.materials >= R(40)
     THEN _add_event(
            [ s EXCEPT !.materials = @ - R(40),
                       !.sectors[i].health = @ + R(50) ],
            "repaired", s.cursor, 0, "green")
     ELSE _add_event(s, "Need 40 materials", 0, 0, "red")

\* a variant of repair: `or` for `and` in its precondition, so a sector at
\* the cursor is repaired whatever the materials
ActionRepair_Or(s) ==
  LET i == get_sector(s, s.cursor)
  IN IF i # 0
     THEN _add_event(
            [ s EXCEPT !.materials = @ - R(40),
                       !.sectors[i].health = MinOf(R(100), @ + R(50)) ],
            "repaired", s.cursor, 0, "green")
     ELSE _add_event(s, "Need 40 materials", 0, 0, "red")

\* -------------------------------------------------------- phase 2: action
ActionRepair(s) ==
  LET i == get_sector(s, s.cursor)
  IN IF i # 0 /\ s.materials >= R(40)
     THEN _add_event(
            [ s EXCEPT !.materials = @ - R(40),
                       !.sectors[i].health = MinOf(R(100), @ + R(50)) ],
            "repaired", s.cursor, 0, "green")
     ELSE _add_event(s, "Need 40 materials", 0, 0, "red")

\* the extinguishing that also resets the count of the fire
ActionExtinguish_ResetsCount(s) ==
  LET i == get_sector(s, s.cursor)
  IN IF i # 0 /\ s.sectors[i].on_fire /\ s.power >= R(30)
     THEN _add_event(
            [ s EXCEPT !.power = @ - R(30), !.sectors[i].on_fire = FALSE,
                       !.sectors[i].fire_turns = 0 ],
            "extinguished", s.cursor, 0, "green")
     ELSE _add_event(s, "Need 30 power or no fire", 0, 0, "red")

ActionExtinguish(s) ==
  LET i == get_sector(s, s.cursor)
  IN IF i # 0 /\ s.sectors[i].on_fire /\ s.power >= R(30)
     THEN _add_event(
            [ s EXCEPT !.power = @ - R(30), !.sectors[i].on_fire = FALSE ],
            "extinguished", s.cursor, 0, "green")
     ELSE _add_event(s, "Need 30 power or no fire", 0, 0, "red")

\* the build that takes the default type whatever the tag
BuildType_Default(action) == "RESIDENTIAL"

\* the type a build tag selects; RESIDENTIAL is the default of the code
BuildType(action) ==
  IF action = build_farm THEN "FARMS"
  ELSE IF action = build_power THEN "POWER"
  ELSE IF action = build_industry THEN "INDUSTRIAL"
  ELSE "RESIDENTIAL"

\* list.sort(key=level) after the append: insertion by level, stable
RECURSIVE SortByLevel(_)
SortByLevel(secs) ==
  IF Len(secs) <= 1 THEN secs
  ELSE LET front == SortByLevel(SubSeq(secs, 1, Len(secs) - 1))
           x == secs[Len(secs)]
           k == Cardinality({ i \in DOMAIN front : front[i].level <= x.level })
       IN SubSeq(front, 1, k) \o <<x>> \o SubSeq(front, k + 1, Len(front))

\* the build that gives the new sector the level of the one below it
ActionBuild_SameLevel(s, action, workers) ==
  LET next_level == Len(s.sectors)
  IN IF next_level > s.max_height
     THEN _add_event(s, "At maximum height", 0, 0, "red")
     ELSE IF s.materials < R(80)
     THEN _add_event(s, "Need 80 materials to build", 0, 0, "red")
     ELSE _add_event(
            [ s EXCEPT !.materials = @ - R(80),
                       !.sectors = SortByLevel(Append(@,
                           Sector(next_level, BuildType(action), workers))) ],
            "built", next_level, 0, "cyan")

\* workers is the random.randint(5, 10) of the new sector
ActionBuild(s, action, workers) ==
  LET next_level == Len(s.sectors) + 1
  IN IF next_level > s.max_height
     THEN _add_event(s, "At maximum height", 0, 0, "red")
     ELSE IF s.materials < R(80)
     THEN _add_event(s, "Need 80 materials to build", 0, 0, "red")
     ELSE _add_event(
            [ s EXCEPT !.materials = @ - R(80),
                       !.sectors = SortByLevel(Append(@,
                           Sector(next_level, BuildType(action), workers))) ],
            "built", next_level, 0, "cyan")

ActionBoostMorale(s) ==
  IF s.food >= R(40) /\ s.power >= R(20)
  THEN _add_event(
         [ s EXCEPT !.food = @ - R(40), !.power = @ - R(20),
                    !.morale = @ + R(30) ],
         "Festival held", 0, 0, "green")
  ELSE _add_event(s, "Need 40 food + 20 power", 0, 0, "red")

ActionEmergencyRations(s) ==
  IF s.population > 30
  THEN _add_event(
         [ s EXCEPT !.population = @ - 10, !.food = @ + R(60),
                    !.morale = @ - R(20) ],
         "Culled 10 citizens", 0, 0, "red")
  ELSE s

\* Simulation._process_action
_process_action(s, action, workers) ==
  IF action = repair THEN ActionRepair(s)
  ELSE IF action = extinguish THEN ActionExtinguish(s)
  ELSE IF StartsWith(action, build) THEN ActionBuild(s, action, workers)
  ELSE IF action = boost_morale THEN ActionBoostMorale(s)
  ELSE IF action = emergency_rations THEN ActionEmergencyRations(s)
  ELSE s

\* the output of a sector whatever its state: the test of is_functional
\* left out
SectorOutput_AnySector(sec, kind, num, den) ==
  IF sec.sector_type = kind
  THEN (sec.workers * num * sec.health) \div (100 * den)
  ELSE 0

\* ---------------------------------------------------- phase 3: production
\* what one sector adds to the pool that sector_type `kind` feeds:
\* workers * num * (health / 100) / den, zero when not functional
SectorOutput(sec, kind, num, den) ==
  IF is_functional(sec) /\ sec.sector_type = kind
  THEN (sec.workers * num * sec.health) \div (100 * den)
  ELSE 0

RECURSIVE Generated(_, _, _, _)
Generated(secs, kind, num, den) ==
  IF secs = << >> THEN 0
  ELSE SectorOutput(Head(secs), kind, num, den)
       + Generated(Tail(secs), kind, num, den)

Production(s) ==
  [ s EXCEPT !.power = @ + Generated(s.sectors, "POWER", 3, 1),
             !.food = @ + Generated(s.sectors, "FARMS", 5, 2),
             !.materials = @ + Generated(s.sectors, "INDUSTRIAL", 2, 1) ]

\* --------------------------------------------------- phase 4: consumption
Consumption(s) ==
  [ s EXCEPT !.power = @ - (s.population * 6 * Scale) \div 10,
             !.food = @ - R(s.population) ]

\* the starvation without the cap of 15 deaths
Starvation_NoCap(s) ==
  IF s.food < 0
  THEN LET deaths == TruncMul(s.population, 12, 100)
       IN [ _add_event(
              [ s EXCEPT !.population = @ - deaths, !.morale = @ - R(25) ],
              "STARVATION", deaths, 0, "red")
            EXCEPT !.food = 0 ]
  ELSE s

\* ------------------------------------------------- phase 5: acute crises
Starvation(s) ==
  IF s.food < 0
  THEN LET deaths == MinOf(TruncMul(s.population, 12, 100), 15)
       IN [ _add_event(
              [ s EXCEPT !.population = @ - deaths, !.morale = @ - R(25) ],
              "STARVATION", deaths, 0, "red")
            EXCEPT !.food = 0 ]
  ELSE s

\* the levels of the functional sectors: what random.choice draws from
FunctionalLevels(s) ==
  { s.sectors[i].level : i \in { j \in DOMAIN s.sectors : is_functional(s.sectors[j]) } }

\* a variant of the blackout: the clamp s.power = 0 left out
Blackout_NoClamp(s, victim) ==
  IF s.power < 0
  THEN LET t == [ s EXCEPT !.morale = @ - R(15) ]
           i == get_sector(s, victim)
       IN IF FunctionalLevels(s) # {} /\ i # 0
          THEN _add_event([ t EXCEPT !.sectors[i].health = @ - R(25) ],
                          "BLACKOUT damages", victim, 0, "red")
          ELSE t
  ELSE s

\* victim is the level random.choice picked among the functional sectors
\* (0 when there is none)
Blackout(s, victim) ==
  IF s.power < 0
  THEN LET t == [ s EXCEPT !.morale = @ - R(15) ]
           i == get_sector(s, victim)
           u == IF FunctionalLevels(s) # {} /\ i # 0
                THEN _add_event([ t EXCEPT !.sectors[i].health = @ - R(25) ],
                                "BLACKOUT damages", victim, 0, "red")
                ELSE t
       IN [ u EXCEPT !.power = 0 ]
  ELSE s

\* the spread that reaches one level further up than the adjacent one
IgniteAdjacent_Far(s, adj_level, rolls) ==
  LET j == get_sector(s, adj_level + 1)
  IN IF j # 0 /\ ~s.sectors[j].on_fire /\ adj_level \in rolls.ignite
     THEN _add_event(
            [ s EXCEPT !.sectors[j].on_fire = TRUE, !.sectors[j].fire_turns = 0 ],
            "Fire spreads to", adj_level + 1, 0, "red")
     ELSE s

\* ------------------------------------------- phase 6: disaster propagation
\* One adjacent level of a spreading fire: ignite a sector there that is not
\* burning when the 0.5 roll for that level succeeds.
IgniteAdjacent(s, adj_level, rolls) ==
  LET j == get_sector(s, adj_level)
  IN IF j # 0 /\ ~s.sectors[j].on_fire /\ adj_level \in rolls.ignite
     THEN _add_event(
            [ s EXCEPT !.sectors[j].on_fire = TRUE, !.sectors[j].fire_turns = 0 ],
            "Fire spreads to", adj_level, 0, "red")
     ELSE s

\* the fire that takes 5 health a turn
BurnSector_Slow(s, i, rolls) ==
  LET lvl == s.sectors[i].level
      s1 == [ s EXCEPT !.sectors[i].fire_turns = @ + 1,
                       !.sectors[i].health = @ - R(5) ]
      ft == s1.sectors[i].fire_turns
      s2 == IF ft > 2 /\ lvl \in rolls.spread
            THEN IgniteAdjacent(IgniteAdjacent(s1, lvl - 1, rolls), lvl + 1, rolls)
            ELSE s1
  IN IF ft > 5 /\ lvl \in rolls.burnout
     THEN _add_event([ s2 EXCEPT !.sectors[i].on_fire = FALSE ],
                     "burns out", lvl, 0, "yellow")
     ELSE s2

\* the body of the loop for the sector at index i, when it is burning
BurnSector(s, i, rolls) ==
  LET lvl == s.sectors[i].level
      s1 == [ s EXCEPT !.sectors[i].fire_turns = @ + 1,
                       !.sectors[i].health = @ - R(8) ]
      ft == s1.sectors[i].fire_turns
      s2 == IF ft > 2 /\ lvl \in rolls.spread
            THEN IgniteAdjacent(IgniteAdjacent(s1, lvl - 1, rolls), lvl + 1, rolls)
            ELSE s1
  IN IF ft > 5 /\ lvl \in rolls.burnout
     THEN _add_event([ s2 EXCEPT !.sectors[i].on_fire = FALSE ],
                     "burns out", lvl, 0, "yellow")
     ELSE s2

\* for sector in list(s.sectors), from index i on: the list holds the same
\* Sector objects, so a sector ignited earlier in the loop is seen burning
RECURSIVE PropagateFrom(_, _, _)
PropagateFrom(s, i, rolls) ==
  IF i > Len(s.sectors) THEN s
  ELSE PropagateFrom(
         IF s.sectors[i].on_fire THEN BurnSector(s, i, rolls) ELSE s,
         i + 1, rolls)

\* Simulation._propagate_disasters.  rolls: the levels whose 0.4 spread roll,
\* 0.5 ignition roll (by target level) and 0.3 burn-out roll succeed.
_propagate_disasters(s, rolls) == PropagateFrom(s, 1, rolls)

\* the decay that is the same on every level
DecayOf_Flat(sec) == 3 * Half

\* ------------------------------------------------- phase 7: decay, collapse
DecayOf(sec) == IF sec.level > 8 THEN 2 * 3 * Half ELSE 3 * Half

\* the collapse that leaves the workers in the sector
DecaySector_KeepsWorkers(s, i, cascade) ==
  LET sec == s.sectors[i]
      s1 == IF sec.health > 0
            THEN [ s EXCEPT !.sectors[i].health = @ - DecayOf(sec) ]
            ELSE s
      now == s1.sectors[i]
  IN IF now.health <= 0 /\ now.workers > 0
     THEN LET s2 == _add_event(
                      [ s1 EXCEPT !.population = @ - now.workers ],
                      "COLLAPSES", now.level, now.workers, "red")
              b == get_sector(s2, now.level - 1)
          IN IF now.level \in cascade /\ b # 0
             THEN _add_event([ s2 EXCEPT !.sectors[b].health = @ - R(40) ],
                             "Collapse damages", now.level - 1, 0, "yellow")
             ELSE s2
     ELSE s1

\* the body of the loop for the sector at index i; cascade holds the levels
\* whose 0.3 roll succeeds
DecaySector(s, i, cascade) ==
  LET sec == s.sectors[i]
      s1 == IF sec.health > 0
            THEN [ s EXCEPT !.sectors[i].health = @ - DecayOf(sec) ]
            ELSE s
      now == s1.sectors[i]
  IN IF now.health <= 0 /\ now.workers > 0
     THEN LET s2 == _add_event(
                      [ s1 EXCEPT !.population = @ - now.workers,
                                  !.sectors[i].workers = 0 ],
                      "COLLAPSES", now.level, now.workers, "red")
              b == get_sector(s2, now.level - 1)
          IN IF now.level \in cascade /\ b # 0
             THEN _add_event([ s2 EXCEPT !.sectors[b].health = @ - R(40) ],
                             "Collapse damages", now.level - 1, 0, "yellow")
             ELSE s2
     ELSE s1

RECURSIVE DecayFrom(_, _, _)
DecayFrom(s, i, cascade) ==
  IF i > Len(s.sectors) THEN s
  ELSE DecayFrom(DecaySector(s, i, cascade), i + 1, cascade)

SectorDecay(s, cascade) == DecayFrom(s, 1, cascade)

\* ------------------------------------------- phase 8: morale and population
\* fled is random.randint(3, 8), growth is random.randint(2, 5)
MoraleAndPopulation(s, fled, growth) ==
  LET s1 == IF s.morale < R(30)
            THEN _add_event([ s EXCEPT !.population = @ - fled ],
                            "citizens flee", fled, 0, "yellow")
            ELSE s
      s2 == IF s1.morale < R(60) THEN [ s1 EXCEPT !.morale = @ + 3 * Half ] ELSE s1
  IN IF s2.food > R(50) /\ s2.morale > R(50) /\ s2.month % 3 = 0
     THEN [ s2 EXCEPT !.population = @ + growth ]
     ELSE s2

\* ------------------------------------------------ phase 9: crises, events
Levels(s) == { s.sectors[i].level : i \in DOMAIN s.sectors }

RECURSIVE WorkersIn(_, _)
WorkersIn(secs, hit) ==
  IF secs = << >> THEN 0
  ELSE (IF Head(secs).level \in hit THEN Head(secs).workers ELSE 0)
       + WorkersIn(Tail(secs), hit)

\* A crisis and its random draws: kind; n (the randint count of sectors);
\* hit (the levels random.sample / random.choice picked); damage (the health
\* each hit sector loses, or for the plague the percentage that dies); each
\* (the casualties per hit sector, or the riot's deaths).
NoCrisis == [ kind |-> "none", n |-> 0, hit |-> {}, damage |-> 0, each |-> 0 ]

_crisis_earthquake(s, c) ==
  LET casualties == c.each * Cardinality(c.hit)
      secs == [ i \in DOMAIN s.sectors |->
                  IF s.sectors[i].level \in c.hit
                  THEN [ s.sectors[i] EXCEPT !.health = @ - R(c.damage) ]
                  ELSE s.sectors[i] ]
  IN _add_event(
       [ s EXCEPT !.sectors = secs, !.population = @ - casualties,
                  !.morale = @ - R(20) ],
       "EARTHQUAKE", c.n, casualties, "red")

_crisis_fire(s, c) ==
  LET secs == [ i \in DOMAIN s.sectors |->
                  IF s.sectors[i].level \in c.hit
                  THEN [ s.sectors[i] EXCEPT !.on_fire = TRUE, !.fire_turns = 0 ]
                  ELSE s.sectors[i] ]
  IN _add_event([ s EXCEPT !.sectors = secs ], "MAJOR FIRE", Min(c.hit), 0, "red")

_crisis_disease(s, c) ==
  LET deaths == TruncMul(s.population, c.damage, 100)
  IN _add_event(
       [ s EXCEPT !.population = @ - deaths, !.morale = @ - R(30) ],
       "PLAGUE OUTBREAK", deaths, 0, "red")

\* the structural failure that empties the sectors but leaves their health
_crisis_structural_failure_KeepsHealth(s, c) ==
  LET total_casualties == WorkersIn(s.sectors, c.hit)
      secs == [ i \in DOMAIN s.sectors |->
                  IF s.sectors[i].level \in c.hit
                  THEN [ s.sectors[i] EXCEPT !.workers = 0 ]
                  ELSE s.sectors[i] ]
  IN _add_event(
       [ s EXCEPT !.sectors = secs, !.population = @ - total_casualties ],
       "STRUCTURAL FAILURE", c.n, total_casualties, "red")

_crisis_structural_failure(s, c) ==
  LET total_casualties == WorkersIn(s.sectors, c.hit)
      secs == [ i \in DOMAIN s.sectors |->
                  IF s.sectors[i].level \in c.hit
                  THEN [ s.sectors[i] EXCEPT !.health = 0, !.workers = 0 ]
                  ELSE s.sectors[i] ]
  IN _add_event(
       [ s EXCEPT !.sectors = secs, !.population = @ - total_casualties ],
       "STRUCTURAL FAILURE", c.n, total_casualties, "red")

_crisis_riot(s, c) ==
  LET secs == [ i \in DOMAIN s.sectors |->
                  IF s.sectors[i].level \in c.hit
                  THEN [ s.sectors[i] EXCEPT !.health = @ - R(30) ]
                  ELSE s.sectors[i] ]
  IN _add_event(
       [ s EXCEPT !.sectors = secs, !.morale = @ - R(25),
                  !.population = @ - c.each ],
       "RIOTS", Min(c.hit), c.each, "red")

\* Simulation._trigger_crisis: c.kind is the generator random.choice picked
_trigger_crisis(s, c) ==
  IF c.kind = "earthquake" THEN _crisis_earthquake(s, c)
  ELSE IF c.kind = "fire" THEN _crisis_fire(s, c)
  ELSE IF c.kind = "disease" THEN _crisis_disease(s, c)
  ELSE IF c.kind = "structural_failure" THEN _crisis_structural_failure(s, c)
  ELSE _crisis_riot(s, c)

\* the pacing that adds 2 to tension a turn
Pacing_Slow(s, roll, c) ==
  LET s1 == [ s EXCEPT !.tension = @ + 4 * Half ]
  IN IF s1.tension > R(100) \/ (s1.turns_since_crisis > 8 /\ roll)
     THEN [ _trigger_crisis(s1, c) EXCEPT !.tension = 0, !.turns_since_crisis = 0 ]
     ELSE s1

\* the trigger that resets tension alone
Pacing_NoReset(s, roll, c) ==
  LET s1 == [ s EXCEPT !.tension = @ + 5 * Half ]
  IN IF s1.tension > R(100) \/ (s1.turns_since_crisis > 8 /\ roll)
     THEN [ _trigger_crisis(s1, c) EXCEPT !.tension = 0 ]
     ELSE s1

\* tension += 2.5, then the trigger; roll is random.random() < 0.4
Pacing(s, roll, c) ==
  LET s1 == [ s EXCEPT !.tension = @ + 5 * Half ]
  IN IF s1.tension > R(100) \/ (s1.turns_since_crisis > 8 /\ roll)
     THEN [ _trigger_crisis(s1, c) EXCEPT !.tension = 0, !.turns_since_crisis = 0 ]
     ELSE s1

NoMinor == [ kind |-> "none", amount |-> 0 ]

\* Simulation._trigger_minor_event: m.kind is the event random.choice picked,
\* m.amount its randint
_trigger_minor_event(s, m) ==
  IF m.kind = "cache"
  THEN _add_event([ s EXCEPT !.materials = @ + R(m.amount) ],
                  "Supply cache discovered", 0, 0, "green")
  ELSE IF m.kind = "refugees"
  THEN _add_event([ s EXCEPT !.population = @ + m.amount ],
                  "Refugee group arrives", 0, 0, "cyan")
  ELSE IF m.kind = "surge"
  THEN _add_event([ s EXCEPT !.power = @ + R(m.amount) ],
                  "Power surge", 0, 0, "yellow")
  ELSE _add_event([ s EXCEPT !.food = @ + R(m.amount) ],
                  "Abundant harvest", 0, 0, "green")

\* roll is random.random() < 0.15
MinorEvent(s, roll, m) == IF roll THEN _trigger_minor_event(s, m) ELSE s

\* the levels of the sectors with 20 < health < 60
Damaged(s) ==
  { s.sectors[i].level :
      i \in { j \in DOMAIN s.sectors :
                R(20) < s.sectors[j].health /\ s.sectors[j].health < R(60) } }

\* the dilemma that is created whether or not a sector is damaged
_create_dilemma_AnySector(s, target) ==
  [ s EXCEPT !.current_dilemma =
      [ target |-> IF target = 0 THEN s.sectors[1].level ELSE target ] ]

\* Simulation._create_dilemma: target is the level random.choice picked among
\* the damaged sectors.  The two closures keep the target sector; sectors are
\* never removed, so its level identifies it.
_create_dilemma(s, target) ==
  IF Damaged(s) = {} THEN s
  ELSE [ s EXCEPT !.current_dilemma = [ target |-> target ] ]

\* roll is random.random() < 0.12
DilemmaPhase(s, roll, target) ==
  IF s.current_dilemma = None /\ roll THEN _create_dilemma(s, target) ELSE s

\* the reinforcement that adds 60 health
save_sector_Plus60(s) ==
  LET i == get_sector(s, s.current_dilemma.target)
  IN _add_event(
       [ s EXCEPT !.sectors[i].health = @ + R(60), !.materials = @ - R(50) ],
       "reinforced", s.current_dilemma.target, 0, "green")

\* the reinforcement that is refused when materials < 50
save_sector_Guarded(s) ==
  LET i == get_sector(s, s.current_dilemma.target)
  IN IF s.materials >= R(50)
     THEN _add_event(
            [ s EXCEPT !.sectors[i].health = @ + R(40), !.materials = @ - R(50) ],
            "reinforced", s.current_dilemma.target, 0, "green")
     ELSE s

\* the closure save_sector of the outstanding dilemma (consequence_a)
save_sector(s) ==
  LET i == get_sector(s, s.current_dilemma.target)
  IN _add_event(
       [ s EXCEPT !.sectors[i].health = @ + R(40), !.materials = @ - R(50) ],
       "reinforced", s.current_dilemma.target, 0, "green")

\* the evacuation that leaves the workers in the sector
abandon_sector_KeepsWorkers(s) ==
  LET i == get_sector(s, s.current_dilemma.target)
      refugees == s.sectors[i].workers
  IN _add_event(
       [ s EXCEPT !.population = @ - TruncMul(refugees, 3, 10),
                  !.sectors[i].health = 0,
                  !.morale = @ - R(15) ],
       "evacuated", s.current_dilemma.target, 0, "yellow")

\* the closure abandon_sector of the outstanding dilemma (consequence_b)
abandon_sector(s) ==
  LET i == get_sector(s, s.current_dilemma.target)
      refugees == s.sectors[i].workers
  IN _add_event(
       [ s EXCEPT !.population = @ - TruncMul(refugees, 3, 10),
                  !.sectors[i].workers = 0, !.sectors[i].health = 0,
                  !.morale = @ - R(15) ],
       "evacuated", s.current_dilemma.target, 0, "yellow")

\* the checks without the one of the functional sectors
CheckCollapse_Skipped(s) == s

\* the survival that is declared one year late
CheckLegendary_Late(s) ==
  IF s.year > 50
  THEN [ s EXCEPT !.alive = FALSE,
                  !.victory_message =
                    [ kind |-> "LEGENDARY", year |-> s.year,
                      population |-> s.population ] ]
  ELSE s

\* ---------------------------------------------- phase 10: win / lose
\* two variants of the extinction check: alive recomputed from the
\* population, and the clamp of the population left out
CheckExtinction_Recompute(s) ==
  IF s.population <= 0
  THEN [ s EXCEPT !.population = 0, !.alive = FALSE,
                  !.victory_message =
                    [ kind |-> "EXTINCTION", year |-> s.year, population |-> 0 ] ]
  ELSE [ s EXCEPT !.alive = TRUE ]

CheckExtinction_NoClamp(s) ==
  IF s.population <= 0
  THEN [ s EXCEPT !.alive = FALSE,
                  !.victory_message =
                    [ kind |-> "EXTINCTION", year |-> s.year, population |-> 0 ] ]
  ELSE s

\* the three checks of advance_turn, in the order of the code
CheckExtinction(s) ==
  IF s.population <= 0
  THEN [ s EXCEPT !.population = 0, !.alive = FALSE,
                  !.victory_message =
                    [ kind |-> "EXTINCTION", year |-> s.year, population |-> 0 ] ]
  ELSE s

CheckCollapse(s) ==
  IF FunctionalLevels(s) = {}
  THEN [ s EXCEPT !.alive = FALSE,
                  !.victory_message =
                    [ kind |-> "TOTAL COLLAPSE", year |-> s.year, population |-> 0 ] ]
  ELSE s

CheckLegendary(s) ==
  IF s.year >= 50
  THEN [ s EXCEPT !.alive = FALSE,
                  !.victory_message =
                    [ kind |-> "LEGENDARY", year |-> s.year,
                      population |-> s.population ] ]
  ELSE s

WinLose(s) == CheckLegendary(CheckCollapse(CheckExtinction(s)))

\* ----------------------------------------------------- the random draws
\* What is left of the run's budget of non-default inputs.
Left(spent) == MaxChoices - spent

\* the lowest and the highest of a set of candidates
Ends(S) == IF S = {} THEN {} ELSE { Min(S), Max(S) }

\* A draw the code makes whatever the rolls: its lowest outcome is free, its
\* highest costs one.
Draw(lo, hi, live, left) ==
  { [ v |-> lo, cost |-> 0 ] }
  \cup (IF live /\ left >= 1 /\ hi # lo THEN { [ v |-> hi, cost |-> 1 ] } ELSE {})

\* random.randint(5, 10) of a build that succeeds
WorkerDraws(s, action, left) ==
  Draw(5, 10,
       StartsWith(action, build) /\ Len(s.sectors) < s.max_height
         /\ s.materials >= R(80),
       left)

\* random.choice(functional) of the blackout
VictimDraws(s, left) ==
  IF s.power < 0 /\ FunctionalLevels(s) # {}
  THEN Draw(Min(FunctionalLevels(s)), Max(FunctionalLevels(s)), TRUE, left)
  ELSE Draw(0, 0, FALSE, left)

\* the fire rolls: at most one fire spreads and at most one burns out in a
\* turn, each for the price of one
FireDraws(s, left) ==
  LET burning == { i \in DOMAIN s.sectors : s.sectors[i].on_fire }
      spreads == { s.sectors[i].level :
                     i \in { j \in burning : s.sectors[j].fire_turns + 1 > 2 } }
      burnouts == { s.sectors[i].level :
                      i \in { j \in burning : s.sectors[j].fire_turns + 1 > 5 } }
      sp == { [ spread |-> {}, ignite |-> {}, cost |-> 0 ] }
            \cup { [ spread |-> { x[1] }, ignite |-> x[2], cost |-> 1 ] :
                     x \in { y \in spreads \X (SUBSET Levels(s)) :
                               /\ y[2] # {}
                               /\ y[2] \subseteq { y[1] - 1, y[1] + 1 } } }
      bo == { [ burnout |-> {}, cost |-> 0 ] }
            \cup { [ burnout |-> { l }, cost |-> 1 ] : l \in burnouts }
  IN { [ spread |-> x[1].spread, ignite |-> x[1].ignite,
         burnout |-> x[2].burnout, cost |-> x[1].cost + x[2].cost ] :
         x \in { y \in sp \X bo : y[1].cost + y[2].cost <= left } }

\* the 0.3 roll of a collapse: the levels that would collapse in this decay
\* phase above an existing sector
CascadeDraws(s, left) ==
  LET falls == { s.sectors[i].level :
                   i \in { j \in DOMAIN s.sectors :
                             /\ s.sectors[j].workers > 0
                             /\ s.sectors[j].health - DecayOf(s.sectors[j]) <= 0
                             /\ get_sector(s, s.sectors[j].level - 1) # 0 } }
  IN { [ cascade |-> {}, cost |-> 0 ] }
     \cup (IF left >= 1 THEN { [ cascade |-> { l }, cost |-> 1 ] : l \in falls }
           ELSE {})

\* random.randint(3, 8) of the flight, random.randint(2, 5) of the growth
FledDraws(s, left) == Draw(3, 8, s.morale < R(30), left)

GrowthDraws(s, left) ==
  Draw(2, 5,
       s.food > R(50) /\ s.month % 3 = 0 /\ s.morale + 3 * Half > R(50),
       left)

\* random.sample(s.sectors, k): the k lowest levels (low) or the k highest
Sample(s, k, low) ==
  LET n == MinOf(k, Len(s.sectors))
  IN IF low THEN { s.sectors[i].level : i \in 1..n }
     ELSE { s.sectors[i].level : i \in (Len(s.sectors) - n + 1)..Len(s.sectors) }

\* the five generators, each with its draws at their low ends (on the lowest
\* levels) and at their high ends (on the highest levels)
CrisisDrawsOf(s) ==
  LET lo == Min(Levels(s))
      hi == Max(Levels(s))
  IN { [ kind |-> "earthquake", n |-> 2, hit |-> Sample(s, 2, TRUE),
         damage |-> 20, each |-> 2 ],
       [ kind |-> "earthquake", n |-> 5, hit |-> Sample(s, 5, FALSE),
         damage |-> 45, each |-> 6 ],
       [ kind |-> "fire", n |-> 1, hit |-> { lo }, damage |-> 0, each |-> 0 ],
       [ kind |-> "fire", n |-> 1, hit |-> { hi }, damage |-> 0, each |-> 0 ],
       [ kind |-> "disease", n |-> 0, hit |-> {}, damage |-> 15, each |-> 0 ],
       [ kind |-> "disease", n |-> 0, hit |-> {}, damage |-> 30, each |-> 0 ],
       [ kind |-> "structural_failure", n |-> 1, hit |-> Sample(s, 1, TRUE),
         damage |-> 0, each |-> 0 ],
       [ kind |-> "structural_failure", n |-> 3, hit |-> Sample(s, 3, FALSE),
         damage |-> 0, each |-> 0 ],
       [ kind |-> "riot", n |-> 1, hit |-> { lo }, damage |-> 0, each |-> 5 ],
       [ kind |-> "riot", n |-> 1, hit |-> { hi }, damage |-> 0, each |-> 15 ] }

\* the pacing roll: forced when tension passes 100, rolled when
\* turns_since_crisis > 8, not rolled otherwise
PacingDraws(s, left) ==
  IF s.tension + 5 * Half > R(100)
  THEN { [ roll |-> FALSE, crisis |-> c, cost |-> 0 ] : c \in CrisisDrawsOf(s) }
  ELSE { [ roll |-> FALSE, crisis |-> NoCrisis, cost |-> 0 ] }
       \cup (IF s.turns_since_crisis > 8 /\ left >= 1
             THEN { [ roll |-> TRUE, crisis |-> c, cost |-> 1 ] : c \in CrisisDrawsOf(s) }
             ELSE {})

MinorDraws(left) ==
  { [ roll |-> FALSE, event |-> NoMinor, cost |-> 0 ] }
  \cup (IF left >= 1
        THEN { [ roll |-> TRUE, event |-> [ kind |-> x[1], amount |-> x[2] ], cost |-> 1 ] :
                 x \in ({ "cache" } \X { 30, 60 }) \cup ({ "refugees" } \X { 5, 12 })
                       \cup ({ "surge" } \X { 40, 80 }) \cup ({ "harvest" } \X { 50, 100 }) }
        ELSE {})

\* the 0.12 roll of the dilemma, drawn only when none is outstanding, and
\* the random.choice among the damaged sectors (target 0 when there is none:
\* _create_dilemma returns before it draws)
DilemmaDraws(s, left) ==
  { [ roll |-> FALSE, target |-> 0, cost |-> 0 ] }
  \cup (IF s.current_dilemma = None /\ left >= 1
        THEN IF Damaged(s) = {}
             THEN { [ roll |-> TRUE, target |-> 0, cost |-> 1 ] }
             ELSE { [ roll |-> TRUE, target |-> l, cost |-> 1 ] : l \in Damaged(s) }
        ELSE {})

\* ------------------------------------------------------------ advance_turn
\* One call of Simulation.advance_turn(action) on the world s0: the ten
\* phases in the order of the code, each random draw a choice.  spent is the
\* budget spent once the call's own input is paid; via and before say how
\* the driver came to make the call.
Turn(s0, action, spent, via, before) ==
  /\ turns < MaxTurns
  /\ spent <= MaxChoices
  /\ \E wk \in WorkerDraws(s0, action, Left(spent)) :
     \E clock \in { ClockAdvance(s0) } :
     \E act \in { IF action # wait THEN _process_action(clock, action, wk.v)
                  ELSE clock } :
     \E prod \in { Production(act) } :
     \E cons \in { Consumption(prod) } :
     \E starv \in { Starvation(cons) } :
     \E vd \in VictimDraws(starv, Left(spent + wk.cost)) :
     \E acute \in { Blackout(starv, vd.v) } :
     \E fr \in FireDraws(acute, Left(spent + wk.cost + vd.cost)) :
     \E prop \in { _propagate_disasters(acute, fr) } :
     \E sp2 \in { spent + wk.cost + vd.cost + fr.cost } :
     \E cd \in CascadeDraws(prop, Left(sp2)) :
     \E decay \in { SectorDecay(prop, cd.cascade) } :
     \E fd \in FledDraws(decay, Left(sp2 + cd.cost)) :
     \E gd \in GrowthDraws(decay, Left(sp2 + cd.cost + fd.cost)) :
     \E mor \in { MoraleAndPopulation(decay, fd.v, gd.v) } :
     \E sp4 \in { sp2 + cd.cost + fd.cost + gd.cost } :
     \E pd \in PacingDraws(mor, Left(sp4)) :
     \E pac \in { Pacing(mor, pd.roll, pd.crisis) } :
     \E md \in MinorDraws(Left(sp4 + pd.cost)) :
     \E mnr \in { MinorEvent(pac, md.roll, md.event) } :
     \E dd \in DilemmaDraws(mnr, Left(sp4 + pd.cost + md.cost)) :
     \E dil \in { DilemmaPhase(mnr, dd.roll, dd.target) } :
        /\ state' = WinLose(dil)
        /\ turns' = turns + 1
        /\ used' = sp4 + pd.cost + md.cost + dd.cost
        /\ last' = [ called |-> TRUE, first |-> last.first,
                     only_wait |-> (last.only_wait /\ via = "advance_turn"
                                      /\ action = wait),
                     via |-> via, action |-> action,
                     before |-> before, entry |-> s0, clock |-> clock,
                     act |-> act, prod |-> prod, cons |-> cons,
                     starv |-> starv, acute |-> acute, prop |-> prop,
                     decay |-> decay, morale |-> mor, pacing |-> pac,
                     minor |-> mnr, dilemma |-> dil,
                     rolls |-> [ fire |-> fr, cascade |-> cd.cascade,
                                 crisis |-> pac.turns_since_crisis = 0,
                                 minor |-> md.roll, dilemma |-> dd.roll ] ]

\* a driver submits an action: sim.advance_turn(action)
advance_turn(action) ==
  Turn(state, action, used + (IF action = wait THEN 0 ELSE 1), "advance_turn", state)

\* a driver resolves the outstanding dilemma with option A, as
\* play_random_game does: consequence_a(), current_dilemma = None,
\* advance_turn("wait")
choice_a ==
  /\ state.alive
  /\ state.current_dilemma # None
  /\ Turn([ save_sector(state) EXCEPT !.current_dilemma = None ], wait, used,
          "choice_a", state)

\* the same with option B
choice_b ==
  /\ state.alive
  /\ state.current_dilemma # None
  /\ Turn([ abandon_sector(state) EXCEPT !.current_dilemma = None ], wait, used,
          "choice_b", state)

\* demo_playthrough resolves the outstanding dilemma: consequence_a() when
\* materials >= 50, else consequence_b(), then current_dilemma = None; the
\* iteration calls no advance_turn, the next one picks its action as usual
demo_resolve ==
  /\ turns < MaxTurns
  /\ state.alive
  /\ state.current_dilemma # None
  /\ state' = [ (IF state.materials >= R(50) THEN save_sector(state)
                 ELSE abandon_sector(state))
                EXCEPT !.current_dilemma = None ]
  /\ last' = [ last EXCEPT !.only_wait = FALSE ]
  /\ UNCHANGED <<turns, used>>

\* the levels a driver writes to the cursor: random_test.py and autoplay.py
\* write the level of a sector, the agent drivers whatever number they parse
\* from the text of the decision (OllamaAI.execute_decision any digits,
\* process_ai_decision any but 0)
CursorInputs == { 0, 2, 9, 15 }

\* s.cursor = level
set_cursor(level) ==
  /\ turns < MaxTurns
  /\ used < MaxChoices
  /\ level # state.cursor
  /\ state' = [ state EXCEPT !.cursor = level ]
  /\ used' = used + 1
  /\ UNCHANGED <<turns, last>>

\* SpireApp.action_move_up: one level up, not above max_height
action_move_up ==
  /\ turns < MaxTurns
  /\ used < MaxChoices
  /\ state.alive
  /\ state' = [ state EXCEPT !.cursor = MinOf(@ + 1, state.max_height) ]
  /\ used' = used + 1
  /\ UNCHANGED <<turns, last>>

\* SpireApp.action_move_down: one level down, not below 1
action_move_down ==
  /\ turns < MaxTurns
  /\ used < MaxChoices
  /\ state.alive
  /\ state' = [ state EXCEPT !.cursor = IF @ - 1 >= 1 THEN @ - 1 ELSE 1 ]
  /\ used' = used + 1
  /\ UNCHANGED <<turns, last>>

\* ------------------------------------------------------------ initial states
SectorAt(level, sector_type, health, workers, on_fire, fire_turns) ==
  [ level |-> level, sector_type |-> sector_type, health |-> health,
    workers |-> workers, on_fire |-> on_fire, fire_turns |-> fire_turns ]

\* create_world, with the fewest and with the most workers per sector
Fresh == { Simulation([ i \in 1..8 |-> w ]) : w \in { 8, 15 } }

\* year 2: the stores are nearly empty, the next turn starves and blacks out
Famine ==
  [ Simulation([ i \in 1..8 |-> 8 ]) EXCEPT
      !.year = 2, !.month = 5, !.food = R(20), !.power = R(10),
      !.materials = R(30), !.morale = R(45),
      !.turns_since_crisis = 5, !.tension = 25 * Half,
      !.sectors = [ i \in 1..8 |-> [ @[i] EXCEPT !.health = R(76) ] ] ]

\* the same with a population of 140: 12% of it is more than 15
Overcrowded == [ Famine EXCEPT !.population = 140 ]

\* a new world with the level-3 sector just ignited
Ignited ==
  [ Simulation([ i \in 1..8 |-> 8 ]) EXCEPT
      !.sectors[3].on_fire = TRUE, !.sectors[3].fire_turns = 0 ]

\* a new world with sectors[4] (level 5) at health 0 with 10 workers
Crumbling ==
  [ Simulation([ i \in 1..8 |-> 8 ]) EXCEPT
      !.sectors[5].health = 0, !.sectors[5].workers = 10 ]

\* year 3: a fire three turns old on level 3, levels 4 and 6 damaged
Burning ==
  [ Simulation([ i \in 1..8 |-> 10 ]) EXCEPT
      !.year = 3, !.month = 2, !.food = R(200), !.power = R(80),
      !.materials = R(120), !.morale = R(55), !.cursor = 3,
      !.turns_since_crisis = 7, !.tension = 35 * Half,
      !.sectors = [ i \in 1..8 |->
                      IF i = 3 THEN [ @[i] EXCEPT !.health = R(50), !.on_fire = TRUE,
                                                  !.fire_turns = 3 ]
                      ELSE IF i = 4 THEN [ @[i] EXCEPT !.health = R(45) ]
                      ELSE IF i = 6 THEN [ @[i] EXCEPT !.health = R(25) ]
                      ELSE [ @[i] EXCEPT !.health = R(70) ] ] ]

\* a crisis is due: turns_since_crisis is 9 (the 0.4 roll decides) or 40
\* (tension passes 100 in the next turn)
CrisisDue ==
  { [ Simulation([ i \in 1..8 |-> 12 ]) EXCEPT
        !.year = 4, !.month = 6, !.food = R(120), !.power = R(150),
        !.materials = R(300), !.morale = R(60),
        !.turns_since_crisis = t, !.tension = 5 * t * Half,
        !.cursor = 9,
        !.sectors = [ i \in 1..8 |->
                        [ @[i] EXCEPT !.health = IF i \in { 2, 7 } THEN R(40) ELSE R(85) ] ] ] :
      t \in { 9, 40 } }

\* the end of a game: a handful of survivors, morale broken, one sector
\* barely functional; in year 5, and in the last month of year 49
Dying ==
  { [ Simulation([ i \in 1..8 |-> 8 ]) EXCEPT
        !.year = y, !.month = 12, !.food = R(30), !.power = R(2),
        !.materials = R(10), !.population = 3, !.morale = R(25),
        !.turns_since_crisis = 3, !.tension = 15 * Half,
        !.sectors = [ i \in 1..8 |->
                        IF i = 1 THEN [ @[i] EXCEPT !.health = R(44), !.workers = 2 ]
                        ELSE [ @[i] EXCEPT !.health = 0, !.workers = 0 ] ] ] :
      y \in { 5, 49 } }

\* the event log of a game in its sixth year: the two entries of the start
\* and 48 more, the log at its bound
LongLog ==
  [ i \in 1..MaxLog |->
      IF i = 1 THEN [ year |-> 1, month |-> 1, message |-> "The Spire awakens",
                      a |-> 0, b |-> 0, color |-> "cyan" ]
      ELSE IF i = 2 THEN [ year |-> 1, month |-> 1, message |-> "The Tower is unstable",
                           a |-> 0, b |-> 0, color |-> "yellow" ]
      ELSE [ year |-> 2 + (i \div 12), month |-> 1 + (i % 12),
             message |-> IF i % 2 = 0 THEN "repaired" ELSE "Need 40 materials",
             a |-> IF i % 2 = 0 THEN 1 + (i % 8) ELSE 0, b |-> 0,
             color |-> IF i % 2 = 0 THEN "green" ELSE "red" ] ]

\* the tower at max_height: four sectors built on the eight
Full ==
  [ Simulation([ i \in 1..8 |-> 9 ]) EXCEPT
      !.events = LongLog,
      !.year = 6, !.month = 3, !.food = R(90), !.power = R(60),
      !.materials = R(200), !.morale = R(70), !.cursor = 12,
      !.turns_since_crisis = 2, !.tension = 10 * Half,
      !.sectors = [ i \in 1..12 |->
                      IF i <= 8 THEN [ @[i] EXCEPT !.health = R(80) ]
                      ELSE SectorAt(i, IF i % 2 = 1 THEN "FARMS" ELSE "POWER",
                                    R(91), 6, FALSE, 0) ] ]

\* year 7: one sector still works, damaged; the others are destroyed, level
\* 5 at health -40 after the cascade of a collapse above it; with no dilemma
\* outstanding, and with one on the working sector
LastStand ==
  { [ Simulation([ i \in 1..8 |-> 8 ]) EXCEPT
        !.year = 7, !.month = 4, !.food = R(40), !.power = R(3),
        !.materials = R(45), !.population = 12, !.morale = R(50),
        !.turns_since_crisis = 4, !.tension = 20 * Half,
        !.current_dilemma = d,
        !.sectors = [ i \in 1..8 |->
                        IF i = 1 THEN [ @[i] EXCEPT !.health = R(44), !.workers = 6 ]
                        ELSE IF i = 5 THEN [ @[i] EXCEPT !.health = - R(40), !.workers = 0 ]
                        ELSE [ @[i] EXCEPT !.health = 0, !.workers = 0 ] ] ] :
      d \in { None, [ target |-> 1 ] } }

\* year 3: levels 3 and 4 both burning for three turns, the cursor on the
\* upper of the two
Inferno ==
  [ Burning EXCEPT !.cursor = 4,
                   !.sectors[3].health = R(60),
                   !.sectors[4].health = R(60),
                   !.sectors[4].on_fire = TRUE,
                   !.sectors[4].fire_turns = 3 ]

\* the same with the fire on levels 4 and 5, none below the cursor
InfernoAbove ==
  [ Inferno EXCEPT !.sectors[3].on_fire = FALSE, !.sectors[3].fire_turns = 0,
                   !.sectors[5].on_fire = TRUE, !.sectors[5].fire_turns = 3 ]

Worlds ==
  Fresh \cup { Famine, Overcrowded, Ignited, Crumbling, Burning, Full }
    \cup CrisisDue \cup Dying \cup LastStand

Init ==
  /\ state \in Worlds
  /\ turns = 0
  /\ used = 0
  /\ last = [ called |-> FALSE, first |-> state, only_wait |-> TRUE ]

Next ==
  \/ \E action \in Actions : advance_turn(action)
  \/ choice_a
  \/ choice_b
  \/ demo_resolve
  \/ \E level \in CursorInputs : set_cursor(level)
  \/ action_move_up
  \/ action_move_down

Spec == Init /\ [][Next]_vars

\* ------------------------------------------------- the fire-fighting driver
\* A driver that fights the fires: each turn it waits or extinguishes at the
\* cursor; the budget is for the random outcomes alone.
InitExtinguish ==
  /\ state \in { Burning, Inferno, InfernoAbove }
  /\ turns = 0
  /\ used = 0
  /\ last = [ called |-> FALSE, first |-> state, only_wait |-> TRUE ]

\* sim.advance_turn("extinguish") at the cursor
extinguish_at_cursor == Turn(state, extinguish, used, "advance_turn", state)

NextExtinguish ==
  \/ advance_turn(wait)
  \/ extinguish_at_cursor

SpecExtinguish == InitExtinguish /\ [][NextExtinguish]_vars

\* ------------------------------------------------------ the terminal driver
\* SpireApp: the key handlers of the terminal interface.  Every handler that
\* calls advance_turn calls check_game_over right after it, and game_over is
\* cleared by action_restart alone, together with a new simulation: when a
\* handler starts, game_over is the negation of sim.state.alive.
game_over == ~state.alive

\* the last month of year 49 with materials for a build
Twilight ==
  { [ d EXCEPT !.materials = R(120) ] : d \in { x \in Dying : x.year = 49 } }

InitUI ==
  /\ state \in Fresh \cup CrisisDue \cup Twilight
  /\ turns = 0
  /\ used = 0
  /\ last = [ called |-> FALSE, first |-> state, only_wait |-> TRUE ]

\* keys 1, 2, 4, 5 and space: refused when the game is over or a dilemma is
\* outstanding, else the turn is advanced with the action of the key
action_do_repair ==
  /\ ~game_over /\ state.current_dilemma = None
  /\ advance_turn(repair)

action_do_extinguish ==
  /\ ~game_over /\ state.current_dilemma = None
  /\ advance_turn(extinguish)

action_do_morale ==
  /\ ~game_over /\ state.current_dilemma = None
  /\ advance_turn(boost_morale)

action_do_rations ==
  /\ ~game_over /\ state.current_dilemma = None
  /\ advance_turn(emergency_rations)

action_do_wait ==
  /\ ~game_over /\ state.current_dilemma = None
  /\ advance_turn(wait)

\* key 3: enter building mode, or log why not; no turn is advanced
action_do_build ==
  /\ ~game_over /\ state.current_dilemma = None
  /\ turns < MaxTurns
  /\ IF Len(state.sectors) >= state.max_height
     THEN /\ used < MaxChoices
          /\ state' = _add_event(state, "At maximum height", 0, 0, "red")
          /\ used' = used + 1
     ELSE IF state.materials < R(80)
     THEN /\ used < MaxChoices
          /\ state' = _add_event(state, "Need 80 materials to build", 0, 0, "red")
          /\ used' = used + 1
     ELSE /\ ~state.building_mode
          /\ state' = [ state EXCEPT !.building_mode = TRUE ]
          /\ used' = used
  /\ UNCHANGED <<turns, last>>

\* keys F, P, I, H: refused unless in building mode, else building mode is
\* left and the turn is advanced with the build action of the key
action_build_farm ==
  /\ state.building_mode
  /\ Turn([ state EXCEPT !.building_mode = FALSE ], build_farm, used,
          "advance_turn", state)

action_build_power ==
  /\ state.building_mode
  /\ Turn([ state EXCEPT !.building_mode = FALSE ], build_power, used,
          "advance_turn", state)

action_build_industry ==
  /\ state.building_mode
  /\ Turn([ state EXCEPT !.building_mode = FALSE ], build_industry, used,
          "advance_turn", state)

action_build_housing ==
  /\ state.building_mode
  /\ Turn([ state EXCEPT !.building_mode = FALSE ], build_housing, used,
          "advance_turn", state)

\* escape: leave building mode
action_cancel_build ==
  /\ state.building_mode
  /\ state' = [ state EXCEPT !.building_mode = FALSE ]
  /\ UNCHANGED <<turns, used, last>>

\* keys A and B: refused when the game is over or no dilemma is outstanding
action_choice_a == ~game_over /\ choice_a

action_choice_b == ~game_over /\ choice_b

\* key R: a new simulation, game_over cleared
action_restart ==
  /\ turns < MaxTurns
  /\ used < MaxChoices
  /\ state' \in Fresh
  /\ used' = used + 1
  /\ last' = [ called |-> FALSE, first |-> state', only_wait |-> TRUE ]
  /\ UNCHANGED turns

NextUI ==
  \/ action_move_up
  \/ action_move_down
  \/ action_restart
  \/ action_do_repair
  \/ action_do_extinguish
  \/ action_do_build
  \/ action_build_farm
  \/ action_build_power
  \/ action_build_industry
  \/ action_build_housing
  \/ action_cancel_build
  \/ action_do_morale
  \/ action_do_rations
  \/ action_do_wait
  \/ action_choice_a
  \/ action_choice_b

SpecUI == InitUI /\ [][NextUI]_vars

\* ================================================================ claims
\* The state the win/lose checks of the latest call started from.
BeforeWinLose == last.dilemma

\* The action resolution of the latest call rejected the action: it changed
\* nothing but the event log, which got one entry, in red.
Rejected(pre, post) ==
  /\ post.events # << >>
  /\ LET e == post.events[Len(post.events)]
     IN /\ e.color = "red"
        /\ post = _add_event(pre, e.message, e.a, e.b, e.color)

\* C1 (as stated): at the end of an advance_turn call the victory message is
\* the one of the first terminal condition that holds, in the order
\* extinction (population <= 0), total collapse (no functional sector),
\* legendary survival (year >= 50).
C1_FirstTerminalConditionWins ==
  last.called =>
    LET d == BeforeWinLose
        kind == state.victory_message.kind
    IN /\ d.population <= 0 => kind = "EXTINCTION"
       /\ (d.population > 0 /\ FunctionalLevels(d) = {}) => kind = "TOTAL COLLAPSE"
       /\ (d.population > 0 /\ FunctionalLevels(d) # {} /\ d.year >= 50)
            => kind = "LEGENDARY"

\* C2 (as stated): an action submitted through advance_turn while a dilemma
\* is outstanding is rejected and leaves the whole world state unchanged.
C2_DilemmaGatesAdvanceTurn ==
  (last.called /\ last.via = "advance_turn" /\ last.entry.current_dilemma # None)
    => state = last.entry

\* C3: once alive is false it is never true again, whatever step is taken.
C3_AliveNeverReverts == [][~state.alive => ~state'.alive]_vars

\* C3 witness: advance_turn was called on a world that was already dead.
C3_CalledWhenDead == last.called /\ ~last.entry.alive /\ ~state.alive

\* C4 (as stated): an advance_turn call on a world with alive == false
\* leaves population, year and victory_message as they were.
C4_TerminalIdempotence ==
  (last.called /\ ~last.entry.alive) =>
    /\ state.population = last.entry.population
    /\ state.year = last.entry.year
    /\ state.victory_message = last.entry.victory_message

\* C5 (as stated): for every tag outside the known set the action resolution
\* changes nothing.
C5_UnknownTagIsWait ==
  (last.called /\ last.action \notin KnownActions) => last.act = last.clock

\* the first five characters of the tag are b, u, i, l, d
BeginsWithBuild(a) ==
  Len(a) >= 5 /\ a[1] = "b" /\ a[2] = "u" /\ a[3] = "i" /\ a[4] = "l" /\ a[5] = "d"

\* C5 (amended): a tag outside the known set that does not start with
\* "build" resolves to nothing, and one that starts with "build" resolves as
\* build_housing does.
C5_UnknownTagIsWaitUnlessBuild ==
  (last.called /\ last.action \notin KnownActions) =>
    IF BeginsWithBuild(last.action)
    THEN \E w \in { 5, 10 } : last.act = ActionBuild(last.clock, build_housing, w)
    ELSE last.act = last.clock

\* C5 witness: a tag that holds "build" without starting with it was
\* submitted to a world that could afford a build.
C5_UnknownTagSubmitted ==
  /\ last.called
  /\ last.action = rebuild
  /\ last.clock.materials >= R(80)
  /\ Len(last.clock.sectors) < last.clock.max_height

\* the precondition of the action fails in world s
Invalid(s, action) ==
  \/ action = repair /\ (get_sector(s, s.cursor) = 0 \/ s.materials < R(40))
  \/ /\ action = extinguish
     /\ \/ get_sector(s, s.cursor) = 0
        \/ ~s.sectors[get_sector(s, s.cursor)].on_fire
        \/ s.power < R(30)
  \/ /\ action \in { build_farm, build_power, build_industry, build_housing }
     /\ (Len(s.sectors) >= s.max_height \/ s.materials < R(80))
  \/ action = boost_morale /\ (s.food < R(40) \/ s.power < R(20))
  \/ action = emergency_rations /\ s.population <= 30

\* C6 (as stated): an action whose precondition fails appends one rejection
\* entry to the event log and changes nothing else.
C6_InvalidActionLogsRejection ==
  (last.called /\ Invalid(last.clock, last.action)) => Rejected(last.clock, last.act)

\* C7: repair with materials < 40 leaves materials and every sector's health
\* unchanged; one rejection entry in the event log is all it adds.
C7_RepairNeedsMaterials ==
  (last.called /\ last.action = repair /\ last.clock.materials < R(40)) =>
    /\ last.act.materials = last.clock.materials
    /\ \A i \in DOMAIN last.clock.sectors :
         last.act.sectors[i].health = last.clock.sectors[i].health
    /\ Rejected(last.clock, last.act)

\* C7 witness: repair was submitted with materials < 40 and a sector at the
\* cursor.
C7_RepairWithoutMaterials ==
  /\ last.called
  /\ last.action = repair
  /\ last.clock.materials < R(40)
  /\ get_sector(last.clock, last.clock.cursor) # 0

\* one month later, lexicographically
NextMonth(a, b) ==
  \/ a.month < 12 /\ b.month = a.month + 1 /\ b.year = a.year
  \/ a.month = 12 /\ b.month = 1 /\ b.year = a.year + 1

\* C8: month is always in 1..12; a step holding an advance_turn call moves
\* (year, month) to the next month, and no other step changes the clock.
C8_ClockMonotonic ==
  /\ [](state.month \in 1..12)
  /\ [][ IF turns' = turns + 1
         THEN NextMonth(state, state')
         ELSE state'.year = state.year /\ state'.month = state.month ]_vars

\* C8 witness: a call wrapped month 12 to month 1 of the next year.
C8_YearWrapped ==
  /\ last.called
  /\ last.entry.month = 12
  /\ state.month = 1
  /\ state.year = last.entry.year + 1

\* C9: after an advance_turn call food >= 0 and power >= 0.
C9_FoodAndPowerNonNegative ==
  last.called => (state.food >= 0 /\ state.power >= 0)

\* C9 witness: both pools were negative after the consumption phase of the
\* call.
C9_BothPoolsWentNegative ==
  last.called /\ last.cons.food < 0 /\ last.cons.power < 0

\* C10: after an advance_turn call population >= 0.
C10_PopulationNonNegative == last.called => state.population >= 0

\* C10 witness: the population was negative when the win/lose checks of the
\* call began.
C10_PopulationWentNegative ==
  last.called /\ BeforeWinLose.population < 0 /\ state.population = 0


\* C11: in every reachable state no two sectors have the same level and the
\* tower holds at most max_height sectors.
C11_LevelsUniqueWithinHeight ==
  /\ \A i, j \in DOMAIN state.sectors :
       i # j => state.sectors[i].level # state.sectors[j].level
  /\ Len(state.sectors) <= state.max_height

\* C11 witness: a build in the latest call added a sector to the tower.
C11_SectorBuilt ==
  last.called /\ Len(last.act.sectors) = Len(last.clock.sectors) + 1

\* the most recent MaxLog entries of a log
KeepLast(log) ==
  IF Len(log) > MaxLog THEN SubSeq(log, Len(log) - MaxLog + 1, Len(log)) ELSE log

\* new is old with some entries appended at its end, the oldest evicted
\* beyond the bound
AppendedTo(old, new) ==
  \E k \in 0..Len(new) :
    new = KeepLast(old \o SubSeq(new, Len(new) - k + 1, Len(new)))

\* the actions whose resolution always logs one entry, success or rejection
AlwaysLogs(action) ==
  action \in { repair, extinguish, boost_morale } \/ BeginsWithBuild(action)

\* C12: the event log never holds more than 50 entries; every step leaves
\* the log as the most recent entries in append order, the oldest evicted
\* first; the entry an action logs is the newest of the log.
C12_EventLogBounded ==
  /\ [](Len(state.events) <= MaxLog)
  /\ [][ /\ AppendedTo(state.events, state'.events)
         /\ (turns' = turns + 1 /\ AlwaysLogs(last'.action)) =>
              LET pre == last'.clock.events
                  post == last'.act.events
              IN /\ Len(post) > 0
                 /\ post = KeepLast(Append(pre, post[Len(post)]))
                 /\ post[Len(post)].year = last'.clock.year
                 /\ post[Len(post)].month = last'.clock.month ]_vars

\* C12 witness: an action logged its entry to a log that held 50 entries,
\* and the oldest was evicted.
C12_OldestEvicted ==
  /\ last.called
  /\ Len(last.clock.events) = MaxLog
  /\ Len(last.act.events) = MaxLog
  /\ last.act.events[1] = last.clock.events[2]
  /\ last.act.events # last.clock.events

\* C13 (as stated): the cursor is between 1 and max_height in every
\* reachable state, whichever driver wrote it.
C13_CursorWithinTower ==
  1 <= state.cursor /\ state.cursor <= state.max_height

\* the vias of the two dilemma choices
Choices == { "choice_a", "choice_b" }

\* C14 (as stated): a step that resolves the outstanding dilemma applies one
\* of its two effects once, clears current_dilemma and runs one
\* advance_turn("wait") at once.
C14_ResolutionThenWaitTurn ==
  [][ ( /\ state.current_dilemma # None
        /\ \/ state'.current_dilemma = None
           \/ (turns' = turns + 1 /\ last'.via \in Choices) )
      => /\ turns' = turns + 1
         /\ last'.via \in Choices
         /\ last'.action = wait
         /\ last'.entry \in
              { [ save_sector(state) EXCEPT !.current_dilemma = None ],
                [ abandon_sector(state) EXCEPT !.current_dilemma = None ] } ]_vars

\* the type a build tag asks for
RequestedType(action) ==
  CASE action = build_farm -> "FARMS"
    [] action = build_power -> "POWER"
    [] action = build_industry -> "INDUSTRIAL"
    [] action = build_housing -> "RESIDENTIAL"

\* C15: with room in the tower and materials >= 80, the resolution of
\* build_farm / build_power / build_industry / build_housing adds exactly one
\* sector, at level previous_count + 1, of the requested type, health 100,
\* not on fire, 5..10 workers; materials go down by exactly 80; the sectors
\* stay sorted by level and the others are untouched.
C15_BuildSuccess ==
  ( /\ last.called
    /\ last.action \in { build_farm, build_power, build_industry, build_housing }
    /\ Len(last.clock.sectors) < last.clock.max_height
    /\ last.clock.materials >= R(80) )
  => LET pre == last.clock
         post == last.act
         n == Len(pre.sectors)
     IN /\ Len(post.sectors) = n + 1
        /\ \A i \in 1..n : post.sectors[i] = pre.sectors[i]
        /\ post.sectors[n + 1].level = n + 1
        /\ post.sectors[n + 1].sector_type = RequestedType(last.action)
        /\ post.sectors[n + 1].health = R(100)
        /\ ~post.sectors[n + 1].on_fire
        /\ post.sectors[n + 1].fire_turns = 0
        /\ post.sectors[n + 1].workers \in 5..10
        /\ post.materials = pre.materials - R(80)
        /\ \A i, j \in DOMAIN post.sectors :
             i < j => post.sectors[i].level < post.sectors[j].level

\* C15 witness: build_farm was submitted with room and materials, and the
\* tower grew.
C15_FarmBuilt ==
  /\ last.called
  /\ last.action = build_farm
  /\ last.clock.materials >= R(80)
  /\ Len(last.act.sectors) = Len(last.clock.sectors) + 1

\* the deaths of a starvation: min(floor(population * 0.12), 15)
StarvationDeaths(population) ==
  IF (population * 12) \div 100 < 15 THEN (population * 12) \div 100 ELSE 15

\* C16: when food is negative after production and consumption, the acute
\* phase kills min(floor(population * 0.12), 15), takes 25 morale and sets
\* food to 0, and does nothing of this otherwise; the blackout check runs
\* whatever the starvation check did: with power negative it takes 15
\* morale and sets power to 0.
C16_Starvation ==
  last.called =>
    /\ IF last.cons.food < 0
       THEN /\ last.starv.population
                 = last.cons.population - StarvationDeaths(last.cons.population)
            /\ last.starv.morale = last.cons.morale - R(25)
            /\ last.starv.food = 0
       ELSE /\ last.starv.population = last.cons.population
            /\ last.starv.morale = last.cons.morale
            /\ last.starv.food = last.cons.food
    /\ last.starv.power = last.cons.power
    /\ IF last.cons.power < 0
       THEN /\ last.acute.morale = last.starv.morale - R(15)
            /\ last.acute.power = 0
       ELSE /\ last.acute.morale = last.starv.morale
            /\ last.acute.power = last.cons.power
    /\ last.acute.population = last.starv.population
    /\ last.acute.food = last.starv.food

\* C16 witness: food and power were both negative after consumption, with a
\* population whose 12% is more than 15: the cap applied and both checks
\* fired.
C16_StarvedAtTheCap ==
  /\ last.called
  /\ last.cons.food < 0
  /\ last.cons.power < 0
  /\ (last.cons.population * 12) \div 100 > 15
  /\ last.starv.population = last.cons.population - 15
  /\ last.acute.morale = last.cons.morale - R(40)

\* the state the latest call returned
Returned == WinLose(last.dilemma)

\* the sector at index i was extinguished by the action of the latest call
Extinguished(i) == ~last.act.sectors[i].on_fire

\* the sector at index i, burning, was set on fire anew by the crisis of the
\* latest call
Reignited(i) ==
  last.pacing.sectors[i].fire_turns # last.morale.sectors[i].fire_turns

\* the sector at index i was repaired by the action of the latest call
Repaired(i) == last.act.sectors[i].health # last.clock.sectors[i].health

\* over the latest call the sector at index i burned one more turn and lost
\* at least 8 health
BurnedOneTurn(i) ==
  /\ Returned.sectors[i].fire_turns = last.entry.sectors[i].fire_turns + 1
  /\ Returned.sectors[i].health <= last.entry.sectors[i].health - R(8)

\* the scenario: a new world with level 3 ignited at fire_turns 0, after
\* three advance_turn("wait") calls
FireScenario ==
  ( /\ last.called /\ turns = 3 /\ last.only_wait
    /\ last.first.year = 1 /\ last.first.month = 1
    /\ Len(last.first.events) = 2
    /\ last.first.sectors[3].on_fire
    /\ last.first.sectors[3].fire_turns = 0 )
  => /\ Returned.sectors[3].fire_turns = 3
     /\ Returned.sectors[3].health <= last.first.sectors[3].health - R(24)

HealthAfterDecay(sec) ==
  IF sec.health > 0
  THEN sec.health - (IF sec.level > 8 THEN R(3) ELSE R(3) \div 2)
  ELSE sec.health

\* the sector collapses in the decay phase
Collapses(sec) == HealthAfterDecay(sec) <= 0 /\ sec.workers > 0

\* the workers of the collapsing sectors among the first n
RECURSIVE Casualties(_, _)
Casualties(secs, n) ==
  IF n = 0 THEN 0
  ELSE Casualties(secs, n - 1) + (IF Collapses(secs[n]) THEN secs[n].workers ELSE 0)

\* C18: in the decay phase every sector whose health is <= 0 after its
\* decay and that has workers collapses once: the population loses exactly
\* its workers and its workers become 0; no other sector loses workers; a
\* sector takes no damage but its decay, except exactly 40 more when the
\* sector directly above it collapsed in this phase.
C18_Collapse ==
  last.called =>
    LET pre == last.prop
        post == last.decay
    IN /\ Len(post.sectors) = Len(pre.sectors)
       /\ post.population = pre.population - Casualties(pre.sectors, Len(pre.sectors))
       /\ \A i \in DOMAIN pre.sectors :
            /\ post.sectors[i].workers
                 = IF Collapses(pre.sectors[i]) THEN 0 ELSE pre.sectors[i].workers
            /\ \/ post.sectors[i].health = HealthAfterDecay(pre.sectors[i])
               \/ /\ post.sectors[i].health = HealthAfterDecay(pre.sectors[i]) - R(40)
                  /\ \E j \in DOMAIN pre.sectors :
                       /\ pre.sectors[j].level = pre.sectors[i].level + 1
                       /\ Collapses(pre.sectors[j])

\* C18 witness: a sector with workers collapsed and the sector below it took
\* the 40 damage of the cascade.
C18_CollapseCascaded ==
  /\ last.called
  /\ \E i, j \in DOMAIN last.prop.sectors :
       /\ last.prop.sectors[j].level = last.prop.sectors[i].level + 1
       /\ Collapses(last.prop.sectors[j])
       /\ last.decay.sectors[j].workers = 0
       /\ last.decay.population = last.prop.population - last.prop.sectors[j].workers
       /\ last.decay.sectors[i].health = HealthAfterDecay(last.prop.sectors[i]) - R(40)

\* the new world of the claim: the eight sectors by level
StartingTypes ==
  << "POWER", "INDUSTRIAL", "RESIDENTIAL", "FARMS",
     "RESIDENTIAL", "FARMS", "POWER", "RESIDENTIAL" >>

\* C19: a freshly created simulation has 8 sectors at levels 1..8 of the
\* listed types, each at health 100 and not on fire; year 1, month 1, food
\* 150, power 100, materials 80, population 85, morale 65, tension 0,
\* turns_since_crisis 0, cursor 5, max_height 12, alive, no dilemma, and
\* exactly the two welcome entries in the event log.
C19_CreateWorld ==
  (turns = 0 /\ state \in Fresh) =>
    /\ Len(state.sectors) = 8
    /\ \A i \in 1..8 :
         /\ state.sectors[i].level = i
         /\ state.sectors[i].sector_type = StartingTypes[i]
         /\ state.sectors[i].health = 100 * Scale
         /\ ~state.sectors[i].on_fire
    /\ state.year = 1 /\ state.month = 1
    /\ state.food = 150 * Scale /\ state.power = 100 * Scale /\ state.materials = 80 * Scale
    /\ state.population = 85 /\ state.morale = 65 * Scale
    /\ state.tension = 0 /\ state.turns_since_crisis = 0
    /\ state.cursor = 5 /\ state.max_height = 12
    /\ state.alive /\ state.current_dilemma = None /\ state.victory_message = NoMessage
    /\ Len(state.events) = 2
    /\ state.events[1].message = "The Spire awakens"
    /\ state.events[2].message = "The Tower is unstable"

\* C19 witness: the run is at a freshly created simulation.
C19_NewWorld == turns = 0 /\ used = 0 /\ state \in Fresh /\ state = last.first

\* C20: no step removes a sector or moves one to another level, and a sector
\* that loses all its workers in a step (collapse, evacuation, structural
\* failure) is left in the collection with health <= 0.
C20_SectorsNeverRemoved ==
  [][ /\ Len(state'.sectors) >= Len(state.sectors)
      /\ \A i \in DOMAIN state.sectors :
           /\ state'.sectors[i].level = state.sectors[i].level
           /\ (state.sectors[i].workers > 0 /\ state'.sectors[i].workers = 0)
                => state'.sectors[i].health <= 0 ]_vars

\* C20 witness: a structural failure destroyed a sector with workers in the
\* latest call and the sector is still in the collection.
C20_SectorDestroyed ==
  /\ last.called
  /\ Len(state.sectors) = Len(last.entry.sectors)
  /\ \E i \in DOMAIN last.morale.sectors :
       /\ last.morale.sectors[i].workers > 0
       /\ last.morale.sectors[i].health > 0
       /\ last.pacing.sectors[i].workers = 0
       /\ last.pacing.sectors[i].health = 0
       /\ state.sectors[i].level = last.entry.sectors[i].level
\* the index of the sector the outstanding dilemma of s is about
TargetOf(s) ==
  CHOOSE i \in DOMAIN s.sectors : s.sectors[i].level = s.current_dilemma.target

\* the newest entry of the log of s
Newest(s) == s.events[Len(s.events)]

\* C21: resolving a dilemma with option A always adds 40 to the health of
\* the target sector and takes 50 materials, whatever the materials, logs
\* the reinforcement and clears the dilemma.
C21_ReinforceUnguarded ==
  (last.called /\ last.via = "choice_a") =>
    LET pre == last.before
        post == last.entry
        i == TargetOf(pre)
    IN /\ post.sectors = [ pre.sectors EXCEPT ![i].health = @ + R(40) ]
       /\ post.materials = pre.materials - R(50)
       /\ post.current_dilemma = None
       /\ post.events = KeepLast(Append(pre.events, Newest(post)))
       /\ Newest(post).message = "reinforced"
       /\ post.population = pre.population
       /\ post.morale = pre.morale

\* C21 witness: option A was taken with materials < 50 and left materials
\* negative.
C21_MaterialsWentNegative ==
  /\ last.called
  /\ last.via = "choice_a"
  /\ last.before.materials < R(50)
  /\ last.entry.materials < 0

\* C22: resolving a dilemma with option B takes floor(workers * 0.3) of the
\* target sector from the population, sets its workers and its health to 0
\* and takes 15 morale; in the turn that follows the sector has no workers
\* and does not collapse.
C22_EvacuateEffect ==
  (last.called /\ last.via = "choice_b") =>
    LET pre == last.before
        post == last.entry
        i == TargetOf(pre)
    IN /\ post.population = pre.population - ((pre.sectors[i].workers * 3) \div 10)
       /\ post.sectors = [ pre.sectors EXCEPT ![i].workers = 0, ![i].health = 0 ]
       /\ post.morale = pre.morale - R(15)
       /\ post.materials = pre.materials
       /\ post.current_dilemma = None
       /\ last.prop.sectors[i].workers = 0
       /\ ~Collapses(last.prop.sectors[i])
       /\ last.decay.sectors[i].workers = 0
       /\ last.decay.population
            = last.prop.population - Casualties(last.prop.sectors, Len(last.prop.sectors))

\* C22 witness: option B was taken on a sector whose workers were enough for
\* casualties.
C22_Evacuated ==
  /\ last.called
  /\ last.via = "choice_b"
  /\ last.before.sectors[TargetOf(last.before)].workers >= 4
  /\ last.entry.population < last.before.population
  /\ last.entry.sectors[TargetOf(last.before)].workers = 0

\* the levels of the sectors of s with 20 < health < 60
Eligible(s) ==
  { s.sectors[i].level :
      i \in { j \in DOMAIN s.sectors :
                s.sectors[j].health > 20 * Scale /\ s.sectors[j].health < 60 * Scale } }

\* C23: advance_turn touches current_dilemma at its dilemma step alone; it
\* creates one only when none is outstanding and a sector has
\* 20 < health < 60, and the dilemma targets such a sector; an outstanding
\* dilemma is neither replaced nor cleared; with no eligible sector nothing
\* is created.
C23_DilemmaCreation ==
  last.called =>
    /\ last.minor.current_dilemma = last.entry.current_dilemma
    /\ Returned.current_dilemma = last.dilemma.current_dilemma
    /\ [ last.dilemma EXCEPT !.current_dilemma = last.minor.current_dilemma ] = last.minor
    /\ last.entry.current_dilemma # None
         => Returned.current_dilemma = last.entry.current_dilemma
    /\ last.dilemma.current_dilemma # last.minor.current_dilemma
         => /\ last.minor.current_dilemma = None
            /\ last.dilemma.current_dilemma.target \in Eligible(last.minor)
    /\ Eligible(last.minor) = {}
         => last.dilemma.current_dilemma = last.minor.current_dilemma

\* C23 witness: the latest call created a dilemma.
C23_DilemmaCreated ==
  /\ last.called
  /\ last.rolls.dilemma
  /\ last.minor.current_dilemma = None
  /\ last.dilemma.current_dilemma # None
\* the titles the five crisis generators log
CrisisTitles ==
  { "EARTHQUAKE", "MAJOR FIRE", "PLAGUE OUTBREAK", "STRUCTURAL FAILURE", "RIOTS" }

\* the pacing step of the latest call ran a crisis generator
Triggered == last.pacing.events # last.morale.events

\* C24: every advance_turn adds 2.5 to tension; a crisis is triggered when
\* tension is then above 100, and otherwise only when turns_since_crisis > 8;
\* a triggered crisis runs exactly one generator and resets tension and
\* turns_since_crisis to 0; with no crisis the step changes nothing but
\* tension.
C24_PacingTrigger ==
  last.called =>
    LET pre == last.morale
        post == last.pacing
        t == pre.tension + (5 * Scale) \div 2
    IN /\ t > 100 * Scale => Triggered
       /\ (t <= 100 * Scale /\ pre.turns_since_crisis <= 8) => ~Triggered
       /\ Triggered
            => /\ post.tension = 0
               /\ post.turns_since_crisis = 0
               /\ post.events = KeepLast(Append(pre.events, Newest(post)))
               /\ Newest(post).message \in CrisisTitles
       /\ ~Triggered => post = [ pre EXCEPT !.tension = t ]
       /\ pre.turns_since_crisis = last.entry.turns_since_crisis + 1
       /\ pre.tension = last.entry.tension

\* C24 witness: a crisis was triggered by the roll, with tension at most 100.
C24_CrisisByRoll ==
  /\ last.called
  /\ Triggered
  /\ last.morale.tension + (5 * Scale) \div 2 <= 100 * Scale
  /\ last.morale.turns_since_crisis > 8
  /\ last.pacing.tension = 0

\* the levels of the burning sectors of s
OnFire(s) ==
  { s.sectors[i].level : i \in { j \in DOMAIN s.sectors : s.sectors[j].on_fire } }

\* the sector of s at level l
AtLevel(s, l) ==
  s.sectors[CHOOSE i \in DOMAIN s.sectors : s.sectors[i].level = l]

\* the levels next to l whose fire spread in the propagation step of the
\* latest call: burning before it, fire_turns above 2 once counted, and the
\* spread roll succeeded
Spreaders(l) ==
  { m \in { l - 1, l + 1 } :
      /\ m \in OnFire(last.acute)
      /\ AtLevel(last.acute, m).fire_turns + 1 > 2
      /\ m \in last.rolls.fire.spread }

\* C25: in a turn a sector that is not burning starts to burn only in the
\* propagation step, by spread from a burning sector one level below or
\* above whose fire_turns is above 2, or in the pacing step by the fire
\* crisis; its fire_turns starts from 0 at ignition (a sector ignited from
\* the level below is visited later in the same loop and counts 1 by the end
\* of the step); no other step ignites a sector.
C25_FireIgnitionSources ==
  last.called =>
    /\ OnFire(last.clock) \subseteq OnFire(last.entry)
    /\ OnFire(last.act) \subseteq OnFire(last.clock)
    /\ OnFire(last.prod) \subseteq OnFire(last.act)
    /\ OnFire(last.cons) \subseteq OnFire(last.prod)
    /\ OnFire(last.starv) \subseteq OnFire(last.cons)
    /\ OnFire(last.acute) \subseteq OnFire(last.starv)
    /\ OnFire(last.decay) \subseteq OnFire(last.prop)
    /\ OnFire(last.morale) \subseteq OnFire(last.decay)
    /\ OnFire(last.minor) \subseteq OnFire(last.pacing)
    /\ OnFire(last.dilemma) \subseteq OnFire(last.minor)
    /\ OnFire(Returned) \subseteq OnFire(last.dilemma)
    /\ \A l \in OnFire(last.prop) \ OnFire(last.acute) :
         /\ Spreaders(l) # {}
         /\ AtLevel(last.prop, l).fire_turns
              = IF l - 1 \in Spreaders(l) THEN 1 ELSE 0
    /\ \A l \in OnFire(last.pacing) \ OnFire(last.morale) :
         /\ Triggered
         /\ Newest(last.pacing).message = "MAJOR FIRE"
         /\ AtLevel(last.pacing, l).fire_turns = 0

\* C25 witness: a fire spread to the level below it: a sector that was not
\* burning burns after the propagation step, its fire_turns at 0.
C25_FireSpread ==
  /\ last.called
  /\ \E l \in OnFire(last.prop) \ OnFire(last.acute) :
       /\ l + 1 \in Spreaders(l)
       /\ AtLevel(last.prop, l).fire_turns = 0
\* the indices of the sectors of s with health > 20 that are not burning
Working(s) ==
  { i \in DOMAIN s.sectors :
      s.sectors[i].health > 20 * Scale /\ ~s.sectors[i].on_fire }

\* the blackout of the latest call took 15 morale, 25 health of exactly one
\* working sector when there is one and of none otherwise, and left power
\* at 0
BlackoutEffect ==
  LET pre == last.starv
      post == last.acute
  IN /\ post.morale = pre.morale - 15 * Scale
     /\ post.power = 0
     /\ IF Working(pre) = {} THEN post.sectors = pre.sectors
        ELSE \E i \in Working(pre) :
               post.sectors = [ pre.sectors EXCEPT ![i].health = @ - 25 * Scale ]
     /\ post.food = pre.food
     /\ post.population = pre.population

\* C26: in a call where power is negative after production and consumption
\* morale falls by 15, exactly one working sector takes 25 damage if there
\* is one (none is damaged otherwise), a blackout event is logged and power
\* is set to 0.
C26_Blackout ==
  (last.called /\ last.starv.power < 0) =>
    /\ BlackoutEffect
    /\ last.acute.events = KeepLast(Append(last.starv.events, Newest(last.acute)))
    /\ Newest(last.acute).message = "BLACKOUT damages"
\* the latest call resolved a repair whose conditions held: a sector at the
\* cursor and materials >= 40
RepairSucceeds ==
  /\ last.called
  /\ last.action = repair
  /\ \E i \in DOMAIN last.clock.sectors :
       last.clock.sectors[i].level = last.clock.cursor
  /\ last.clock.materials >= 40 * Scale

\* the index of the sector at the cursor of s
AtCursor(s) ==
  CHOOSE i \in DOMAIN s.sectors : s.sectors[i].level = s.cursor

\* the resolution of the repair took 40 materials, set the health of the
\* sector at the cursor to min(100, health + 50) and changed nothing else
\* but the log
RepairEffect ==
  LET pre == last.clock
      i == AtCursor(pre)
      h == pre.sectors[i].health
  IN [ last.act EXCEPT !.events = pre.events ]
       = [ pre EXCEPT
             !.materials = @ - 40 * Scale,
             !.sectors[i].health =
                IF h + 50 * Scale > 100 * Scale THEN 100 * Scale ELSE h + 50 * Scale ]

\* C27 as stated: a successful repair takes exactly 40 materials, sets the
\* health of the sector at the cursor to min(100, health + 50), changes no
\* other sector, and a sector with health <= 0 becomes functional again with
\* its workers unchanged.
C27_RepairSuccess ==
  RepairSucceeds =>
    LET i == AtCursor(last.clock)
    IN /\ RepairEffect
       /\ last.clock.sectors[i].health <= 0
            => /\ last.act.sectors[i].health > 20 * Scale
               /\ ~last.act.sectors[i].on_fire
               /\ last.act.sectors[i].workers = last.clock.sectors[i].workers

\* C27 amended: as above, but a sector with health <= 0 is functional after
\* the repair exactly when its health was above -30 and it is not burning;
\* its workers are unchanged in every case.
C27_RepairSuccessAboveMinus30 ==
  RepairSucceeds =>
    LET i == AtCursor(last.clock)
        was == last.clock.sectors[i]
        now == last.act.sectors[i]
    IN /\ RepairEffect
       /\ now.workers = was.workers
       /\ now.on_fire = was.on_fire
       /\ was.health <= 0
            => ((now.health > 20 * Scale /\ ~now.on_fire)
                  <=> (was.health > - 30 * Scale /\ ~was.on_fire))

\* C27 witness: a repair succeeded on a sector with health <= 0 that holds
\* workers, and the sector is functional after it.
C27_DestroyedRepaired ==
  /\ RepairSucceeds
  /\ last.clock.sectors[AtCursor(last.clock)].health <= 0
  /\ last.clock.sectors[AtCursor(last.clock)].workers > 0
  /\ last.act.sectors[AtCursor(last.clock)].health > 20 * Scale
  /\ ~last.act.sectors[AtCursor(last.clock)].on_fire
\* the latest call resolved an extinguish whose conditions held: a burning
\* sector at the cursor and power >= 30
ExtinguishSucceeds ==
  /\ last.called
  /\ last.action = extinguish
  /\ \E i \in DOMAIN last.clock.sectors :
       /\ last.clock.sectors[i].level = last.clock.cursor
       /\ last.clock.sectors[i].on_fire
  /\ last.clock.power >= 30 * Scale

\* the resolution of the extinguish took 30 power, put the fire of the
\* sector at the cursor out and changed nothing else but the log
ExtinguishEffect ==
  LET pre == last.clock
      i == AtCursor(pre)
  IN [ last.act EXCEPT !.events = pre.events ]
       = [ pre EXCEPT !.power = @ - 30 * Scale, !.sectors[i].on_fire = FALSE ]

\* the fire of the level below the cursor spread back to the sector at the
\* cursor in the propagation step of the latest call
SpreadBack ==
  LET l == last.clock.cursor
  IN /\ l - 1 \in Spreaders(l)
     /\ l \in last.rolls.fire.ignite

\* the fire of the level above the cursor spread to the sector at the cursor
\* in the propagation step of the latest call
SpreadDown ==
  LET l == last.clock.cursor
  IN /\ l + 1 \in Spreaders(l)
     /\ l \in last.rolls.fire.ignite

RECURSIVE Yield(_, _, _, _, _)
Yield(secs, n, kind, num, den) ==
  IF n = 0 THEN 0
  ELSE Yield(secs, n - 1, kind, num, den)
       + (IF /\ secs[n].sector_type = kind
             /\ secs[n].health > 20 * Scale
             /\ ~secs[n].on_fire
          THEN (secs[n].workers * num * secs[n].health) \div (den * 100)
          ELSE 0)

\* C29: the production step adds to power, food and materials what the
\* functional Power, Farm and Industrial sectors yield (workers * 3, 2.5, 2
\* times health / 100); burning sectors, sectors with health <= 20 and
\* Residential sectors add nothing; no pool decreases and nothing else
\* changes.
C29_ProductionFunctionalOnly ==
  last.called =>
    LET pre == last.act
        post == last.prod
        n == Len(pre.sectors)
    IN /\ post.power = pre.power + Yield(pre.sectors, n, "POWER", 3, 1)
       /\ post.food = pre.food + Yield(pre.sectors, n, "FARMS", 5, 2)
       /\ post.materials = pre.materials + Yield(pre.sectors, n, "INDUSTRIAL", 2, 1)
       /\ post.power >= pre.power
       /\ post.food >= pre.food
       /\ post.materials >= pre.materials
       /\ [ post EXCEPT !.power = pre.power, !.food = pre.food,
                        !.materials = pre.materials ] = pre

\* C29 witness: a production step with a staffed farm, power plant or
\* factory that is burning or has health <= 20 and adds nothing, while the
\* functional sectors raise all three pools.
C29_IdleSector ==
  /\ last.called
  /\ \E i \in DOMAIN last.act.sectors :
       /\ last.act.sectors[i].sector_type \in { "POWER", "FARMS", "INDUSTRIAL" }
       /\ last.act.sectors[i].workers > 0
       /\ last.act.sectors[i].health > 0
       /\ (last.act.sectors[i].on_fire \/ last.act.sectors[i].health <= 20 * Scale)
  /\ last.prod.power > last.act.power
  /\ last.prod.food > last.act.food
  /\ last.prod.materials > last.act.materials

\* what the decay of one turn takes from a sector: 1.5, 3.0 above level 8,
\* nothing at health <= 0
Rate(sec) ==
  IF sec.health <= 0 THEN 0
  ELSE IF sec.level <= 8 THEN (3 * Scale) \div 2 ELSE 3 * Scale

\* C30: in the decay step every sector with health > 0 loses exactly 1.5
\* health at a level <= 8 and exactly 3.0 above level 8, and a sector with
\* health <= 0 loses nothing to decay; the only other loss of the step is
\* the 40 that the cascade of a collapse directly above takes.
C30_StructuralDecay ==
  last.called =>
    \A i \in DOMAIN last.prop.sectors :
      LET was == last.prop.sectors[i]
          now == last.decay.sectors[i]
          cascade == IF was.level + 1 \in last.rolls.cascade THEN 40 * Scale ELSE 0
      IN /\ was.health - now.health = Rate(was) + cascade
         /\ now.level = was.level

\* C30 witness: in one decay step a sector above level 8 lost 3.0 and a
\* sector at a level <= 8 lost 1.5.
C30_UpperAndLowerDecay ==
  /\ last.called
  /\ \E i, j \in DOMAIN last.prop.sectors :
       /\ last.prop.sectors[i].level > 8
       /\ last.prop.sectors[i].health > 0
       /\ last.prop.sectors[i].health - last.decay.sectors[i].health = 3 * Scale
       /\ last.prop.sectors[j].level <= 8
       /\ last.prop.sectors[j].health > 0
       /\ 2 * (last.prop.sectors[j].health - last.decay.sectors[j].health) = 3 * Scale
CallsMade(s) == 12 * (s.year - 1) + (s.month - 1)

C33_CrisisSpacing ==
  /\ (turns = 0 /\ state \in Fresh) => state.turns_since_crisis = 0
  /\ last.called =>
       LET nth == last.entry.turns_since_crisis + 1
       IN /\ Triggered => (nth >= 9 /\ nth <= 41)
          /\ nth >= 41 => Triggered
          /\ Returned.turns_since_crisis = IF Triggered THEN 0 ELSE nth
          /\ Returned.turns_since_crisis <= 40

\* C33 witness: a crisis was triggered in the 41st call after the one before.
C33_CrisisAt41 ==
  /\ last.called
  /\ last.entry.turns_since_crisis = 40
  /\ Triggered
  /\ Returned.turns_since_crisis = 0

\* C34: after every call tension = 2.5 * turns_since_crisis and
\* 0 <= tension <= 100.
C34_PacingCoupled ==
  last.called =>
    /\ 2 * Returned.tension = 5 * Scale * Returned.turns_since_crisis
    /\ Returned.tension >= 0
    /\ Returned.tension <= 100 * Scale
    /\ 2 * state.tension = 5 * Scale * state.turns_since_crisis

\* C34 witness: a second call in a row returned without a crisis, eleven
\* turns after the latest one, with tension at 27.5.
C34_TensionGrows ==
  /\ last.called
  /\ ~Triggered
  /\ last.entry.turns_since_crisis = 10
  /\ Returned.turns_since_crisis = 11
  /\ 2 * Returned.tension = 55 * Scale
\* the levels that hold a sector in s
LevelsOf(s) == { s.sectors[i].level : i \in DOMAIN s.sectors }

\* no sector that a and b both hold has more workers in b than in a
NoWorkersAdded(a, b) ==
  \A l \in LevelsOf(a) \cap LevelsOf(b) :
    AtLevel(b, l).workers <= AtLevel(a, l).workers

\* C35: the workers of a sector never increase once it exists: not over a
\* step, and in a step that holds a call not from one phase of the call to
\* the next, so a sector whose workers reached 0 keeps 0 and cannot collapse
\* with casualties again.
C35_WorkersNeverReturn ==
  [][ /\ NoWorkersAdded(state, state')
      /\ turns' = turns + 1 =>
           /\ NoWorkersAdded(state, last'.entry)
           /\ NoWorkersAdded(last'.entry, last'.clock)
           /\ NoWorkersAdded(last'.clock, last'.act)
           /\ NoWorkersAdded(last'.act, last'.prod)
           /\ NoWorkersAdded(last'.prod, last'.cons)
           /\ NoWorkersAdded(last'.cons, last'.starv)
           /\ NoWorkersAdded(last'.starv, last'.acute)
           /\ NoWorkersAdded(last'.acute, last'.prop)
           /\ NoWorkersAdded(last'.prop, last'.decay)
           /\ NoWorkersAdded(last'.decay, last'.morale)
           /\ NoWorkersAdded(last'.morale, last'.pacing)
           /\ NoWorkersAdded(last'.pacing, last'.minor)
           /\ NoWorkersAdded(last'.minor, last'.dilemma)
           /\ NoWorkersAdded(last'.dilemma, state')
           /\ \A l \in LevelsOf(state) :
                AtLevel(state, l).workers = 0
                  => /\ AtLevel(state', l).workers = 0
                     /\ ~Collapses(AtLevel(last'.prop, l)) ]_vars

\* C35 witness: a repair succeeded on a sector without workers, and the
\* sector came out of the call without workers.
C35_RepairedStaysEmpty ==
  /\ RepairSucceeds
  /\ last.clock.sectors[AtCursor(last.clock)].workers = 0
  /\ last.act.sectors[AtCursor(last.clock)].health
       = last.clock.sectors[AtCursor(last.clock)].health + 50 * Scale
  /\ Returned.sectors[AtCursor(last.clock)].workers = 0
\* every sector of s has health <= 100
HealthBounded(s) ==
  \A i \in DOMAIN s.sectors : s.sectors[i].health <= 100 * Scale

\* the sector an outstanding dilemma of s is about has health below 60, as
\* it had when the dilemma was created
FreshDilemma(s) ==
  s.current_dilemma # None => s.sectors[TargetOf(s)].health < 60 * Scale

\* the step is one a driver takes: while a dilemma is outstanding no turn is
\* advanced but by the choice
ChoiceFirst ==
  (state.current_dilemma # None /\ turns' = turns + 1)
    => last'.via \in { "choice_a", "choice_b" }

\* C36: with every dilemma answered before another turn is advanced, every
\* sector has health <= 100 in every state, the state between the
\* consequence of a choice and its wait turn included: option A adds 40 to a
\* sector that is below 60.
C36_HealthUpperBound ==
  /\ HealthBounded(state) /\ FreshDilemma(state)
  /\ [][ (HealthBounded(state) /\ FreshDilemma(state) /\ ChoiceFirst)
           => /\ HealthBounded(state')
              /\ FreshDilemma(state')
              /\ turns' = turns + 1
                   => /\ HealthBounded(last'.entry)
                      /\ HealthBounded(last'.act)
                      /\ HealthBounded(last'.dilemma) ]_vars

\* C36 witness: option A raised the sector of the dilemma above 60, to at
\* most 100.
C36_Reinforced ==
  /\ last.called
  /\ last.via = "choice_a"
  /\ last.entry.sectors[TargetOf(last.before)].health
       = last.before.sectors[TargetOf(last.before)].health + 40 * Scale
  /\ last.entry.sectors[TargetOf(last.before)].health > 60 * Scale
  /\ last.entry.sectors[TargetOf(last.before)].health <= 100 * Scale
\* C37: a sector ignited by spread in the propagation step of a call is not
\* processed as burning in that step, whether it lies above or below the
\* sector it caught fire from: at the end of the step its fire_turns is 0
\* and it has taken no fire damage.
C37_SpreadDefersProcessing ==
  last.called =>
    \A l \in OnFire(last.prop) \ OnFire(last.acute) :
      /\ AtLevel(last.prop, l).fire_turns = 0
      /\ AtLevel(last.prop, l).health = AtLevel(last.acute, l).health
\* C38: in the terminal driver advance_turn is never called while a dilemma
\* is outstanding: the only call made about a dilemma is the wait that
\* follows a choice, after the dilemma is cleared.
C38_UIDilemmaGate ==
  last.called => last.entry.current_dilemma = None

\* C39: in the terminal driver no key handler calls advance_turn once the
\* game is over, until the game is restarted.
C39_UIStopsAtGameOver ==
  last.called => last.entry.alive
====
